---- MODULE Spec2Model ----
(***************************************************************************)
(* A model of the vector-store core of the policy helper backend:          *)
(*   backend/app/utils.py         retry_with_backoff                       *)
(*   backend/app/vector_store.py  InMemoryStore, QdrantStore               *)
(*   backend/app/orchestrator.py  RAGEngine (health record, ingestion)     *)
(*                                                                         *)
(* Numbers.  Vectors have small integer components.  Norms and similarity  *)
(* scores are fixed-point numbers: a norm is kept in units of 1/NormScale, *)
(* a similarity in units of 1/SimScale, both rounded down, as the code's   *)
(* float32 values are rounded.  The code's epsilon 1e-9 is one unit of the *)
(* denominator.  Time is in seconds; retry delays are in milliseconds.     *)
(***************************************************************************)
EXTENDS Integers, Sequences, FiniteSets, TLC

VARIABLES
    backend,          \* which store object exists: "none", "memory", "qdrant"
    vecs,             \* InMemoryStore.vecs
    meta,             \* InMemoryStore.meta
    hashes,           \* InMemoryStore._hashes
    norms,            \* InMemoryStore._precomputed_norms
    cache,            \* _query_cache of the store, in dict (insertion) order
    now,              \* time.time()
    service_healthy,  \* QdrantStore.service_healthy
    client,           \* QdrantStore.client is not None
    remote,           \* the remote service: "up", "down" or "flaky"
    collection,       \* the remote holds the target collection
    points,           \* the remote collection's points, by point id
    last,             \* what the most recent store call was given and returned
    engine,           \* the RAGEngine's own fields, once constructed
    rcall,            \* the most recent retry_with_backoff run on its own
    threads           \* the store calls in flight on two request threads

vars == <<backend, vecs, meta, hashes, norms, cache, now, service_healthy,
          client, remote, collection, points, last, engine, rcall, threads>>

memVars == <<vecs, meta, hashes, norms>>
qdrantVars == <<service_healthy, client, collection, points>>

(***************************************************************************)
(* Bounds of the model.                                                    *)
(***************************************************************************)
MaxStore == 3          \* stored entries of an InMemoryStore
MaxBatch == 2          \* pairs in one upsert call
MaxK == 2              \* largest k asked of search
TickSeconds == 150     \* the clock advances in steps of this many seconds
MaxNow == 310          \* the clock stops here
NormScale == 100       \* fixed-point units of a norm
SimScale == 1000       \* fixed-point units of a similarity score
MaxRetriesBound == 3   \* largest max_retries tried on retry_with_backoff alone
MaxChunkCount == 3     \* the engine's chunk counter stops here
MaxIngests == 2        \* the engine's ingest counter stops here
MaxAsks == 3           \* the engine's ask counter stops here

(***************************************************************************)
(* Program constants.                                                      *)
(***************************************************************************)
cache_ttl == 300                 \* _cache_ttl, seconds
max_cache_size == 2              \* _max_cache_size (1000 in the code), scaled
default_max_delay == 30000       \* retry_with_backoff max_delay=30.0
connect_max_retries == 5
connect_base_delay == 2000
collection_max_retries == 3
collection_base_delay == 1000
upsert_max_retries == 3
upsert_base_delay == 1000
search_max_retries == 2
search_base_delay == 500
buffer_size == 2                 \* Metrics buffer_size (1000 in the code), scaled
dim == 2                         \* the stores' dim (384 in the code), scaled

(***************************************************************************)
(* Small helpers.                                                          *)
(***************************************************************************)
Min(a, b) == IF a <= b THEN a ELSE b

Range(s) == {s[i] : i \in 1..Len(s)}

RECURSIVE Pow2(_)
Pow2(n) == IF n = 0 THEN 1 ELSE 2 * Pow2(n - 1)

RECURSIVE ISqrtSearch(_, _, _)
\* the largest r in lo..hi-1 with r*r <= x, given lo*lo <= x < hi*hi
ISqrtSearch(x, lo, hi) ==
    IF hi - lo <= 1 THEN lo
    ELSE LET mid == (lo + hi) \div 2
         IN  IF mid * mid <= x THEN ISqrtSearch(x, mid, hi)
             ELSE ISqrtSearch(x, lo, mid)

\* 46341 squared is beyond the integers of the checker
ISqrt(x) == ISqrtSearch(x, 0, Min(x + 1, 46341))

RECURSIVE DotFrom(_, _, _)
DotFrom(a, b, i) ==
    IF i > Len(a) THEN 0 ELSE a[i] * b[i] + DotFrom(a, b, i + 1)

Dot(a, b) == DotFrom(a, b, 1)

\* np.linalg.norm of one vector, in units of 1/NormScale
VecNorm(v) == ISqrt(Dot(v, v) * NormScale * NormScale)

(***************************************************************************)
(* utils.py: retry_with_backoff.  outs[a + 1] is what func() does on       *)
(* attempt a: "raise", or the value it returns ("None" is Python's None).  *)
(* The run is the loop itself: the value returned, the number of calls of  *)
(* func and the sleeps made, in order, in milliseconds.                    *)
(***************************************************************************)
\* a delay that doubles without the cap
BackoffDelayUncapped(base_delay, max_delay, attempt) ==
    base_delay * Pow2(attempt)

BackoffDelay(base_delay, max_delay, attempt) ==
    Min(base_delay * Pow2(attempt), max_delay)

RECURSIVE RetryLoop(_, _, _, _, _, _)
RetryLoop(outs, max_retries, base_delay, max_delay, attempt, sleeps) ==
    IF attempt > max_retries
    THEN [result |-> "None", calls |-> attempt, sleeps |-> sleeps]
    ELSE IF outs[attempt + 1] # "raise"
    THEN [result |-> outs[attempt + 1], calls |-> attempt + 1, sleeps |-> sleeps]
    ELSE IF attempt = max_retries
    THEN [result |-> "None", calls |-> attempt + 1, sleeps |-> sleeps]
    ELSE RetryLoop(outs, max_retries, base_delay, max_delay, attempt + 1,
                   Append(sleeps, BackoffDelay(base_delay, max_delay, attempt)))

\* a loop that makes every attempt and returns what the last one did
retry_with_backoff_last(outs, max_retries, base_delay, max_delay) ==
    [result |-> IF outs[max_retries + 1] = "raise" THEN "None"
                ELSE outs[max_retries + 1],
     calls  |-> max_retries + 1,
     sleeps |-> [a \in 1..max_retries |->
                    BackoffDelay(base_delay, max_delay, a - 1)]]

\* a loop over range(max_retries)
retry_with_backoff_short(outs, max_retries, base_delay, max_delay) ==
    RetryLoop(outs, max_retries - 1, base_delay, max_delay, 0, <<>>)

retry_with_backoff(outs, max_retries, base_delay, max_delay) ==
    RetryLoop(outs, max_retries, base_delay, max_delay, 0, <<>>)

(***************************************************************************)
(* The data the calls are tried on.  A pair is a vector and its metadata;  *)
(* a metadata record has an id and a hash, "" standing for an absent or    *)
(* empty one.                                                              *)
(***************************************************************************)
Pair(v, id, h) == [v |-> v, m |-> [id |-> id, hash |-> h, title |-> ""]]

\* pair p under another title
Retitled(p, title) == [p EXCEPT !.m.title = title]

PairA == Pair(<<1, 0>>, "", "h1")
PairC == Pair(<<9, 1>>, "", "h3")
PairN == Pair(<<0, 1>>, "", "")

Pairs == {PairA, PairC, PairN}

Queries == {<<1, 0>>, <<1, 1>>}

Batches == UNION {[1..n -> Pairs] : n \in 1..MaxBatch}

Elapse == {0, TickSeconds}

\* the data tried on the remote store
QPairs == {PairA, PairC}

QBatches == UNION {[1..n -> QPairs] : n \in 1..MaxBatch}

QQueries == {<<1, 0>>}

\* the data the derivation of point ids is tried on: a pair whose hash is
\* no hexadecimal text, two whose hashes are digests, and the content of
\* one of them met again under another title
PairH == Pair(<<1, 0>>, "aaaaaaaaaaaaaaaa01", "aaaaaaaaaaaaaaaa01")
PairH2 == Retitled(PairH, "doc2")
PairG == Pair(<<9, 1>>, "bbbbbbbbbbbbbbbb01", "bbbbbbbbbbbbbbbb01")

IdPairs == {PairA, PairH, PairH2, PairG}

IdBatches == UNION {[1..n -> IdPairs] : n \in 1..MaxBatch}

\* a pair whose vector is not of the collection's dimension
PairBad == Pair(<<1, 0, 0>>, "", "h9")

BadBatches == UNION {[1..n -> {PairA, PairC, PairBad}] : n \in 1..MaxBatch}

\* the record of a store call: what it was given, what it returned (res, or
\* raised), whether the result came from the cache or was computed from the
\* data, the pairs it stored, the attempts of remote calls it made, the
\* attempts of them made to connect and to set up the collection, the
\* sleeps of its retried request and, of a search, the number of entries its
\* insertion into the cache evicted and the time it returned
NoCall == [op |-> "none", q |-> <<>>, k |-> 0, batch |-> <<>>, res |-> <<>>,
           cached |-> FALSE, computed |-> FALSE, added |-> 0, raised |-> FALSE,
           conn |-> 0, setup |-> 0,
           reqs |-> 0, sleeps |-> <<>>, evicted |-> 0, t |-> 0]

(***************************************************************************)
(* The query cache, shared by both stores: a dict in insertion order, each *)
(* entry a key, the cached result and its creation timestamp.              *)
(***************************************************************************)
\* _get_query_hash: md5 over the query's bytes followed by the digits of k.
\* The digest is taken to be collision-free, so the key is the digested text:
\* one word per vector component, then k.
QueryHash(q, k) == q \o <<k>>

CacheKeys(c) == {c[i].key : i \in 1..Len(c)}

CacheIndex(c, key) == CHOOSE i \in 1..Len(c) : c[i].key = key

CacheGet(c, key) == c[CacheIndex(c, key)]

RemoveAt(s, i) == SubSeq(s, 1, i - 1) \o SubSeq(s, i + 1, Len(s))

\* self._query_cache[key] = (res, ts): a present key keeps its place
CacheSet(c, key, res, ts) ==
    LET e == [key |-> key, res |-> res, ts |-> ts]
    IN  IF key \in CacheKeys(c)
        THEN [c EXCEPT ![CacheIndex(c, key)] = e]
        ELSE Append(c, e)

\* a validity test that lets no entry expire
IsCacheValidAlways(ts, t) == TRUE

\* a validity test with the comparison turned round
IsCacheValidReversed(ts, t) == t - ts > cache_ttl

\* _is_cache_valid
IsCacheValid(ts, t) == t - ts < cache_ttl

\* the last entry with the greatest timestamp
NewestIndex(c) ==
    CHOOSE i \in 1..Len(c) :
        /\ \A j \in 1..Len(c) : c[i].ts >= c[j].ts
        /\ \A j \in (i + 1)..Len(c) : c[j].ts < c[i].ts

\* min(keys, key=timestamp): the first entry with the least timestamp
OldestIndex(c) ==
    CHOOSE i \in 1..Len(c) :
        /\ \A j \in 1..Len(c) : c[i].ts <= c[j].ts
        /\ \A j \in 1..(i - 1) : c[j].ts > c[i].ts

RECURSIVE DropOldest(_, _)
DropOldest(c, n) ==
    IF n <= 0 \/ c = <<>> THEN c
    ELSE DropOldest(RemoveAt(c, OldestIndex(c)), n - 1)

\* _cleanup_cache at time t: expired entries go, then the oldest beyond the bound
CleanupCache(c, t) ==
    LET live == SelectSeq(c, LAMBDA e : IsCacheValid(e.ts, t))
    IN  IF Len(live) > max_cache_size
        THEN DropOldest(live, Len(live) - max_cache_size)
        ELSE live

\* an insertion that makes no room
CacheInsertNoEviction(c, key, res, ts) == CacheSet(c, key, res, ts)

\* if len(self._query_cache) >= self._max_cache_size, and the cache is not
\* empty: the insertion evicts an entry
Evicts(c) == Len(c) >= max_cache_size /\ c # <<>>

\* the insertion at the end of search: one eviction when at capacity
CacheInsert(c, key, res, ts) ==
    LET room == IF Evicts(c) THEN RemoveAt(c, OldestIndex(c)) ELSE c
    IN  CacheSet(room, key, res, ts)

(***************************************************************************)
(* InMemoryStore.                                                          *)
(***************************************************************************)
\* norms that are all the first vector's
PrecomputedNormsOfFirst(vs) == [i \in 1..Len(vs) |-> VecNorm(vs[1])]

\* _update_precomputed_norms: one norm per stored vector
PrecomputedNorms(vs) == [i \in 1..Len(vs) |-> VecNorm(vs[i])]

\* np.vstack(self.vecs) raises unless the vectors are of one length
Stackable(vs) == \A i, j \in 1..Len(vs) : Len(vs[i]) = Len(vs[j])

\* A @ q.T raises unless the rows of A are of the query's length
Multipliable(vs, q) == Stackable(vs) /\ \A i \in 1..Len(vs) : Len(vs[i]) = Len(q)

RECURSIVE UpsertLoopNoDedupe(_, _, _)
\* an upsert loop that never skips a pair
UpsertLoopNoDedupe(st, batch, i) ==
    IF i > Len(batch) THEN st
    ELSE LET h == batch[i].m.hash
         IN  UpsertLoopNoDedupe([vecs   |-> Append(st.vecs, batch[i].v),
                                 meta   |-> Append(st.meta, batch[i].m),
                                 hashes |-> IF h # "" THEN st.hashes \cup {h}
                                            ELSE st.hashes,
                                 added  |-> st.added + 1],
                                batch, i + 1)

RECURSIVE UpsertLoopHashForgotten(_, _, _)
\* an upsert loop that inserts and never records a hash
UpsertLoopHashForgotten(st, batch, i) ==
    IF i > Len(batch) THEN st
    ELSE LET h == batch[i].m.hash
         IN  IF h # "" /\ h \in st.hashes
             THEN UpsertLoopHashForgotten(st, batch, i + 1)
             ELSE UpsertLoopHashForgotten(
                      [vecs   |-> Append(st.vecs, batch[i].v),
                       meta   |-> Append(st.meta, batch[i].m),
                       hashes |-> st.hashes,
                       added  |-> st.added + 1],
                      batch, i + 1)

RECURSIVE UpsertLoop(_, _, _)
\* the for loop of upsert over the pairs from position i on; st is the
\* store so far and the count of vectors added
UpsertLoop(st, batch, i) ==
    IF i > Len(batch) THEN st
    ELSE LET h == batch[i].m.hash
         IN  IF h # "" /\ h \in st.hashes
             THEN UpsertLoop(st, batch, i + 1)
             ELSE UpsertLoop([vecs   |-> Append(st.vecs, batch[i].v),
                              meta   |-> Append(st.meta, batch[i].m),
                              hashes |-> IF h # "" THEN st.hashes \cup {h}
                                         ELSE st.hashes,
                              added  |-> st.added + 1],
                             batch, i + 1)

\* the cosine similarity of stored vector v, of precomputed norm n, to q
Similarity(v, n, q) ==
    LET num == Dot(v, q) * SimScale * NormScale * NormScale
        den == n * VecNorm(q) + 1
    IN  IF num >= 0 THEN num \div den ELSE 0 - ((0 - num) \div den)

Sims(vs, ns, q) == [i \in 1..Len(vs) |-> Similarity(vs[i], ns[i], q)]

Injective(f) == \A i, j \in DOMAIN f : f[i] = f[j] => i = j

\* np.argsort(s): an order of the positions by rising value
ArgsortAsc(s) ==
    {p \in [1..Len(s) -> 1..Len(s)] :
        /\ Injective(p)
        /\ \A i \in 1..(Len(s) - 1) : s[p[i]] <= s[p[i + 1]]}

\* np.argsort(-s): an order of the positions of s by falling value.  The
\* default sort kind is not stable, so equal values come in any order.
ArgsortDesc(s) ==
    {p \in [1..Len(s) -> 1..Len(s)] :
        /\ Injective(p)
        /\ \A i \in 1..(Len(s) - 1) : s[p[i]] >= s[p[i + 1]]}

\* np.partition(s, -k)[-k]: the k-th largest value
KthLargest(s, k) ==
    CHOOSE t \in Range(s) :
        /\ Cardinality({i \in 1..Len(s) : s[i] > t}) < k
        /\ Cardinality({i \in 1..Len(s) : s[i] >= t}) >= k

\* np.where(s >= t)[0]: the positions at or above t, rising
RECURSIVE WhereAtLeast(_, _, _)
WhereAtLeast(s, t, i) ==
    IF i > Len(s) THEN <<>>
    ELSE (IF s[i] >= t THEN <<i>> ELSE <<>>) \o WhereAtLeast(s, t, i + 1)

\* a selection that sorts and does not cut
TopKIndexUncut(s, k) == ArgsortDesc(s)

\* the index orders the top-k selection of search can end with
TopKIndex(s, k) ==
    IF Len(s) <= k
    THEN ArgsortDesc(s)
    ELSE LET top_candidates == WhereAtLeast(s, KthLargest(s, k), 1)
             candidate_sims == [j \in 1..Len(top_candidates) |->
                                   s[top_candidates[j]]]
         IN  {[j \in 1..Min(k, Len(top_candidates)) |-> top_candidates[p[j]]] :
                 p \in ArgsortDesc(candidate_sims)}

\* results = [(float(sims[i]), self.meta[i]) for i in idx]
ResultsOf(s, ms, idx) == [j \in 1..Len(idx) |-> <<s[idx[j]], ms[idx[j]]>>]

\* an upsert that leaves the cache as it is
CacheKeptAfterMemUpsert(c, vectors_added) == c

\* the cache after an upsert that added this many vectors
CacheAfterMemUpsert(c, vectors_added) ==
    IF vectors_added > 0 THEN <<>> ELSE c

\* InMemoryStore(dim)
NewInMemoryStoreCall ==
    /\ backend = "none"
    /\ backend' = "memory"
    /\ UNCHANGED <<memVars, cache, now, qdrantVars, remote, last, rcall, threads>>

\* InMemoryStore.upsert(vectors, metadatas), the pairs zipped into batch
MemUpsertCall(batch) ==
    LET st == UpsertLoop([vecs |-> vecs, meta |-> meta, hashes |-> hashes,
                          added |-> 0], batch, 1)
    IN  /\ backend = "memory"
        /\ Len(st.vecs) <= MaxStore
        /\ vecs' = st.vecs
        /\ meta' = st.meta
        /\ hashes' = st.hashes
        /\ IF st.added > 0 /\ ~Stackable(st.vecs)
           THEN \* _update_precomputed_norms raises, the pairs appended
                /\ last' = [NoCall EXCEPT !.op = "upsert", !.batch = batch,
                                          !.raised = TRUE]
                /\ UNCHANGED <<norms, cache>>
           ELSE /\ norms' = IF st.added > 0 THEN PrecomputedNorms(st.vecs)
                            ELSE norms
                /\ cache' = CacheAfterMemUpsert(cache, st.added)
                /\ last' = [NoCall EXCEPT !.op = "upsert", !.batch = batch,
                                          !.added = st.added]
        /\ UNCHANGED <<backend, now, qdrantVars, remote, rcall, threads>>

\* a search that never takes the store for empty
StoreIsEmptyNever(vs) == FALSE

\* if not self.vecs
StoreIsEmpty(vs) == vs = <<>>

\* InMemoryStore.search(query, k).  d is the time that passes in the call
\* after the cache cleanup has read the clock.
MemSearchCall(q, k, d) ==
    /\ backend = "memory"
    /\ IF StoreIsEmpty(vecs)
       THEN /\ last' = [NoCall EXCEPT !.op = "search", !.q = q, !.k = k,
                                       !.t = now]
            /\ UNCHANGED <<memVars, cache, now>>
       ELSE LET query_hash == QueryHash(q, k)
                cleaned == CleanupCache(cache, now)
                hit == /\ query_hash \in CacheKeys(cleaned)
                       /\ IsCacheValid(CacheGet(cleaned, query_hash).ts, now + d)
            IN  IF hit
                THEN /\ now + d <= MaxNow
                     /\ cache' = cleaned
                     /\ now' = now + d
                     /\ last' = [NoCall EXCEPT
                                   !.op = "search", !.q = q, !.k = k,
                                   !.res = CacheGet(cleaned, query_hash).res,
                                   !.cached = TRUE, !.t = now + d]
                     /\ UNCHANGED memVars
                ELSE IF ~Multipliable(vecs, q)
                THEN \* np.vstack or the product with the query raises
                     /\ now + d <= MaxNow
                     /\ cache' = cleaned
                     /\ now' = now + d
                     /\ norms' = IF Stackable(vecs) /\ Len(norms) # Len(vecs)
                                 THEN PrecomputedNorms(vecs) ELSE norms
                     /\ last' = [NoCall EXCEPT !.op = "search", !.q = q,
                                               !.k = k, !.raised = TRUE,
                                               !.t = now + d]
                     /\ UNCHANGED <<vecs, meta, hashes>>
                ELSE LET ns == IF Len(norms) # Len(vecs)
                               THEN PrecomputedNorms(vecs) ELSE norms
                         sims == Sims(vecs, ns, q)
                     IN  /\ now + d <= MaxNow
                         /\ \E idx \in TopKIndex(sims, k) :
                              LET results == ResultsOf(sims, meta, idx)
                              IN  /\ cache' = CacheInsert(cleaned, query_hash,
                                                  results, now + d)
                                  /\ last' = [NoCall EXCEPT
                                        !.op = "search", !.q = q, !.k = k,
                                        !.res = results,
                                        !.computed = TRUE,
                                        !.evicted = IF Evicts(cleaned)
                                                    THEN 1 ELSE 0,
                                        !.t = now + d]
                         /\ norms' = ns
                         /\ now' = now + d
                         /\ UNCHANGED <<vecs, meta, hashes>>
    /\ UNCHANGED <<backend, qdrantVars, remote, rcall, threads>>

\* time passes between calls
Tick ==
    /\ now + TickSeconds <= MaxNow
    /\ now' = now + TickSeconds
    /\ UNCHANGED <<backend, memVars, cache, qdrantVars, remote, last, engine,
                   rcall, threads>>


(***************************************************************************)
(* QdrantStore.  The remote service is "up" (every request is served),     *)
(* "down" (every request fails) or "flaky" (each request may fail).  A     *)
(* retried remote call is told apart by the number of attempts that fail   *)
(* before one succeeds; failed attempts leave the remote as it was, but    *)
(* for an upsert whose request was applied and whose answer was lost.  Of  *)
(* a flaky remote the runs kept are the two ends: the first attempt is     *)
(* served, or every attempt fails (the runs between them are those of      *)
(* retry_with_backoff on its own, RetryCall).                              *)
(***************************************************************************)
FailCounts(n) ==
    IF remote = "up" THEN {0}
    ELSE IF remote = "down" THEN {n}
    ELSE {0, n}

\* what func() does on each of n attempts: f failures, then val
Outs(f, n, val) == [a \in 1..n |-> IF a <= f THEN "raise" ELSE val]

\* how _ensure_collection can go: <<failed attempts, the attempt that
\* ran to its end called recreate_collection>>
EnsureChoices ==
    LET n == collection_max_retries + 1
    IN  IF remote = "up" THEN {<<0, ~collection>>}
        ELSE IF remote = "down" THEN {<<n, FALSE>>}
        ELSE {<<n, FALSE>>} \cup
             {<<f, r>> : f \in {0},
                         r \in IF collection THEN BOOLEAN ELSE {TRUE}}

\* _ensure_collection with a client: get_collection, and on any exception
\* recreate_collection, which leaves an empty collection
EnsureCollection(ec) ==
    LET run == retry_with_backoff(
                   Outs(ec[1], collection_max_retries + 1, "None"),
                   collection_max_retries, collection_base_delay,
                   default_max_delay)
        done == run.calls > ec[1]
    IN  [collection |-> IF done /\ ec[2] THEN TRUE ELSE collection,
         points     |-> IF done /\ ec[2] THEN <<>> ELSE points,
         calls      |-> run.calls]

\* a client initialisation that tries the connection once
InitializeClientOnce(cf, ec) ==
    LET conn == retry_with_backoff(
                    Outs(cf, connect_max_retries + 1, "client"),
                    0, connect_base_delay, default_max_delay)
    IN  IF conn.result # "None"
        THEN LET ens == EnsureCollection(ec)
             IN  [client |-> TRUE, healthy |-> TRUE,
                  collection |-> ens.collection, points |-> ens.points,
                  conn |-> conn.calls, setup |-> ens.calls,
                  reqs |-> conn.calls + ens.calls]
        ELSE [client |-> FALSE, healthy |-> FALSE,
              collection |-> collection, points |-> points,
              conn |-> conn.calls, setup |-> 0,
              reqs |-> conn.calls]

\* a client initialisation that starts over when its budget is used up
InitializeClientAgain(cf, ec) ==
    LET conn == retry_with_backoff(
                    Outs(cf, connect_max_retries + 1, "client"),
                    connect_max_retries, connect_base_delay, default_max_delay)
    IN  IF conn.result # "None"
        THEN LET ens == EnsureCollection(ec)
             IN  [client |-> TRUE, healthy |-> TRUE,
                  collection |-> ens.collection, points |-> ens.points,
                  conn |-> conn.calls, setup |-> ens.calls,
                  reqs |-> conn.calls + ens.calls]
        ELSE [client |-> FALSE, healthy |-> FALSE,
              collection |-> collection, points |-> points,
              conn |-> 2 * conn.calls, setup |-> 0,
              reqs |-> 2 * conn.calls]

\* _initialize_client: cf connection attempts fail
InitializeClient(cf, ec) ==
    LET conn == retry_with_backoff(
                    Outs(cf, connect_max_retries + 1, "client"),
                    connect_max_retries, connect_base_delay, default_max_delay)
    IN  IF conn.result # "None"
        THEN LET ens == EnsureCollection(ec)
             IN  [client |-> TRUE, healthy |-> TRUE,
                  collection |-> ens.collection, points |-> ens.points,
                  conn |-> conn.calls, setup |-> ens.calls,
                  reqs |-> conn.calls + ens.calls]
        ELSE [client |-> FALSE, healthy |-> FALSE,
              collection |-> collection, points |-> points,
              conn |-> conn.calls, setup |-> 0,
              reqs |-> conn.calls]

\* a health check that reads the flag and never reconnects
CheckServiceHealthNoReconnect(cf, ec) ==
    [client |-> client, healthy |-> service_healthy,
     collection |-> collection, points |-> points, conn |-> 0, setup |-> 0,
                                                   reqs |-> 0]

\* a health check that takes the store to be healthy
CheckServiceHealthAssumed(cf, ec) ==
    [client |-> client, healthy |-> TRUE,
     collection |-> collection, points |-> points, conn |-> 0, setup |-> 0,
                                                   reqs |-> 0]

\* _check_service_health: reconnect when unhealthy
CheckServiceHealth(cf, ec) ==
    IF ~service_healthy
    THEN InitializeClient(cf, ec)
    ELSE [client |-> client, healthy |-> service_healthy,
          collection |-> collection, points |-> points, conn |-> 0, setup |-> 0,
                                                        reqs |-> 0]

\* the choices a health check meets: none when the store is healthy
ConnectChoices ==
    IF service_healthy THEN {0} ELSE FailCounts(connect_max_retries + 1)

HealthEnsureChoices ==
    IF service_healthy THEN {<<0, FALSE>>} ELSE EnsureChoices

\* strings of the data that start with 16 hexadecimal digits, and the
\* integer those digits spell.  No string of the data is a well-formed UUID.
HexPrefixValue(s) ==
    CASE s = "aaaaaaaaaaaaaaaa01" -> 1001
      [] s = "aaaaaaaaaaaaaaaa02" -> 1001
      [] s = "bbbbbbbbbbbbbbbb01" -> 1002
      [] OTHER -> -1

\* a point id that is always the batch position
PointIdPositional(m, i) == i

\* the point id _perform_upsert derives for metadata m at batch position i
PointId(m, i) ==
    LET pid == IF m.id # "" THEN m.id ELSE m.hash
    IN  IF HexPrefixValue(pid) >= 0 THEN HexPrefixValue(pid) ELSE i

PointsOf(batch) ==
    [j \in 1..Len(batch) |->
        [id |-> PointId(batch[j].m, j - 1), v |-> batch[j].v, m |-> batch[j].m]]

RECURSIVE RemoteUpsert(_, _, _)
\* the remote's upsert of the points new from position j on: a point whose
\* id is held is overwritten, another is added
RemoteUpsert(pts, new, j) ==
    IF j > Len(new) THEN pts
    ELSE LET held == {i \in 1..Len(pts) : pts[i].id = new[j].id}
         IN  IF held = {}
             THEN RemoteUpsert(Append(pts, new[j]), new, j + 1)
             ELSE RemoteUpsert([pts EXCEPT ![CHOOSE i \in held : TRUE] = new[j]],
                               new, j + 1)

\* the remote's ranked search: cosine similarity, limited to k
RemoteSearch(pts, q, k) ==
    IF pts = <<>> THEN {<<>>}
    ELSE LET vs == [i \in 1..Len(pts) |-> pts[i].v]
             ms == [i \in 1..Len(pts) |-> pts[i].m]
             sims == Sims(vs, PrecomputedNorms(vs), q)
         IN  {ResultsOf(sims, ms, idx) : idx \in TopKIndex(sims, k)}

\* QdrantStore(collection, dim)
NewQdrantStoreCall ==
    /\ backend = "none"
    /\ backend' = "qdrant"
    /\ \E cf \in FailCounts(connect_max_retries + 1), ec \in EnsureChoices :
          LET h == InitializeClient(cf, ec)
          IN  /\ client' = h.client
              /\ service_healthy' = h.healthy
              /\ collection' = h.collection
              /\ points' = h.points
              /\ last' = [NoCall EXCEPT !.op = "init", !.conn = h.conn, !.setup = h.setup,
                                                       !.reqs = h.reqs]
    /\ cache' = <<>>
    /\ UNCHANGED <<memVars, now, remote, rcall, threads>>

\* a remote upsert that leaves the cache as it is
CacheKeptAfterQdrantUpsert(c, result) == c

\* the cache after the retried upsert has returned result
CacheAfterQdrantUpsert(c, result) ==
    IF result = "True" THEN <<>> ELSE c

\* an upsert that takes every retried result for a success
UpsertFailedNever(result) == FALSE

\* if result is None: the retried upsert has failed; the flag is cleared
\* and RuntimeError raised
UpsertFailed(result) == result = "None"

\* the batch holds a vector that is not of the collection's dimension: the
\* remote answers the upsert request with an error, and client.upsert raises
Malformed(batch) == \E j \in 1..Len(batch) : Len(batch[j].v) # dim

\* QdrantStore.upsert(vectors, metadatas).  uf attempts of the upsert
\* fail; lost says that a failed attempt was applied by the remote.
QUpsertCall(batch) ==
    /\ backend = "qdrant"
    /\ \E cf \in ConnectChoices, ec \in HealthEnsureChoices :
          LET h == CheckServiceHealth(cf, ec)
              call == [NoCall EXCEPT !.op = "upsert", !.batch = batch]
          IN  /\ client' = h.client
              /\ collection' = h.collection
              /\ IF ~h.healthy
                 THEN /\ service_healthy' = FALSE
                      /\ points' = h.points
                      /\ cache' = cache
                      /\ last' = [call EXCEPT !.raised = TRUE,
                                              !.conn = h.conn, !.setup = h.setup,
                                              !.reqs = h.reqs]
                 ELSE \E uf \in IF h.collection /\ ~Malformed(batch)
                                THEN FailCounts(upsert_max_retries + 1)
                                ELSE {upsert_max_retries + 1},
                         lost \in IF /\ remote = "flaky"
                                     /\ h.collection
                                     /\ ~Malformed(batch)
                                  THEN BOOLEAN ELSE {FALSE} :
                        LET run == retry_with_backoff(
                                       Outs(uf, upsert_max_retries + 1, "True"),
                                       upsert_max_retries, upsert_base_delay,
                                       default_max_delay)
                            applied == \/ run.result # "None"
                                       \/ lost /\ uf >= 1
                            pts == IF applied
                                   THEN RemoteUpsert(h.points, PointsOf(batch), 1)
                                   ELSE h.points
                        IN  /\ Len(pts) <= MaxStore
                            /\ service_healthy' = ~UpsertFailed(run.result)
                            /\ points' = pts
                            /\ cache' = IF UpsertFailed(run.result) THEN cache
                                        ELSE CacheAfterQdrantUpsert(cache,
                                                                    run.result)
                            /\ last' = [call EXCEPT
                                          !.raised = UpsertFailed(run.result),
                                          !.added = IF applied THEN Len(batch)
                                                    ELSE 0,
                                          !.conn = h.conn, !.setup = h.setup,
                                          !.reqs = h.reqs + run.calls,
                                          !.sleeps = run.sleeps]
    /\ UNCHANGED <<memVars, backend, now, remote, rcall, threads>>

\* a failed search that caches the empty list it falls back to
CacheFallbackCached(cleaned, key, t) == CacheInsert(cleaned, key, <<>>, t)

\* if result is None: search returns [] before the insertion into the
\* cache, which is left as the cleanup left it
CacheAfterFailedSearch(cleaned, key, t) == cleaned

\* a search that goes on whatever the health check returned
SearchUnavailableNever(healthy) == FALSE

\* if not self._check_service_health(): the search returns [] at once
SearchUnavailable(healthy) == ~healthy

\* QdrantStore.search(query, k).  sf attempts of the search fail; d is the
\* time that passes in the call after the cache cleanup has read the clock.
QSearchCall(q, k, d) ==
    /\ backend = "qdrant"
    /\ now + d <= MaxNow
    /\ \E cf \in ConnectChoices, ec \in HealthEnsureChoices :
          LET h == CheckServiceHealth(cf, ec)
              query_hash == QueryHash(q, k)
              cleaned == CleanupCache(cache, now)
              hit == /\ query_hash \in CacheKeys(cleaned)
                     /\ IsCacheValid(CacheGet(cleaned, query_hash).ts, now + d)
              call == [NoCall EXCEPT !.op = "search", !.q = q, !.k = k,
                                     !.t = now + d]
          IN  /\ client' = h.client
              /\ collection' = h.collection
              /\ points' = h.points
              /\ IF SearchUnavailable(h.healthy)
                 THEN /\ d = 0
                      /\ service_healthy' = h.healthy
                      /\ UNCHANGED <<cache, now>>
                      /\ last' = [call EXCEPT !.conn = h.conn, !.setup = h.setup,
                                              !.reqs = h.reqs]
                 ELSE IF hit
                 THEN /\ service_healthy' = TRUE
                      /\ cache' = cleaned
                      /\ now' = now + d
                      /\ last' = [call EXCEPT
                                    !.res = CacheGet(cleaned, query_hash).res,
                                    !.cached = TRUE, !.conn = h.conn, !.setup = h.setup,
                                                     !.reqs = h.reqs]
                 ELSE \E sf \in IF h.collection
                                THEN FailCounts(search_max_retries + 1)
                                ELSE {search_max_retries + 1} :
                        LET run == retry_with_backoff(
                                       Outs(sf, search_max_retries + 1, "out"),
                                       search_max_retries, search_base_delay,
                                       default_max_delay)
                        IN  /\ now' = now + d
                            /\ IF run.result = "None"
                               THEN /\ service_healthy' = FALSE
                                    /\ cache' = CacheAfterFailedSearch(
                                                    cleaned, query_hash, now + d)
                                    /\ last' = [call EXCEPT
                                                  !.conn = h.conn, !.setup = h.setup,
                                                  !.reqs = h.reqs + run.calls,
                                                  !.sleeps = run.sleeps]
                               ELSE /\ service_healthy' = TRUE
                                    /\ \E result \in RemoteSearch(h.points, q, k) :
                                          /\ cache' = CacheInsert(cleaned,
                                                 query_hash, result, now + d)
                                          /\ last' = [call EXCEPT
                                                 !.res = result,
                                                 !.computed = TRUE,
                                                 !.evicted = IF Evicts(cleaned)
                                                             THEN 1 ELSE 0,
                                                 !.conn = h.conn, !.setup = h.setup,
                                                 !.reqs = h.reqs + run.calls,
                                                 !.sleeps = run.sleeps]
    /\ UNCHANGED <<memVars, backend, remote, rcall, threads>>

\* the remote service changes its state
RemoteChange(s) ==
    /\ backend # "memory"
    /\ s # remote
    /\ remote' = s
    /\ UNCHANGED <<backend, memVars, cache, now, qdrantVars, last, engine,
                   rcall, threads>>

(***************************************************************************)
(* RAGEngine.  A chunk is a text with its title; doc_hash and the embedder *)
(* are functions of the text.                                              *)
(***************************************************************************)
Texts == {"t1", "t2", "t3"}

\* ingest.doc_hash: the hexadecimal digest of the text
doc_hash(text) ==
    CASE text = "t1" -> "aaaaaaaaaaaaaaaa01"
      [] text = "t2" -> "aaaaaaaaaaaaaaaa02"
      [] text = "t3" -> "bbbbbbbbbbbbbbbb01"

\* embedder.embed
Embed(text) ==
    CASE text = "t1" -> <<1, 0>>
      [] text = "t2" -> <<0, 1>>
      [] text = "t3" -> <<9, 1>>
      [] text = "q1" -> <<1, 0>>

TitleOf(text) == IF text = "t3" THEN "doc2" ELSE "doc1"

Chunk(text) == [text |-> text, title |-> TitleOf(text)]

ChunkLists == UNION {[1..n -> {Chunk(t) : t \in Texts}] : n \in 1..MaxBatch}

QueryTexts == {"q1"}

\* the chunk lists ingested where the counters are watched
CounterChunkLists == {<<Chunk("t1")>>, <<Chunk("t3")>>}

NoReturn == [op |-> "none", raised |-> FALSE, new_docs |-> 0, new_chunks |-> 0,
             contexts |-> <<>>]

NoRecord == [healthy |-> FALSE, type |-> "", degraded |-> FALSE]

\* service_status["llm"] is built once by _initialize_llm_provider and never
\* written again; it is no field of the model's engine but a parameter of
\* get_service_status, which ranges over LLMRecords
NoEngine == [built |-> FALSE, setting |-> "", store_type |-> "",
             vector_store |-> NoRecord,
             doc_titles |-> {}, chunk_count |-> 0,
             total_ingests |-> 0, total_asks |-> 0, t_retrieval |-> <<>>,
             t_generation |-> <<>>, ret |-> NoReturn]

\* the health record _initialize_vector_store builds for the store it holds
VectorStoreRecord(kind, healthy, store_type) ==
    IF kind = "qdrant"
    THEN [healthy |-> healthy, type |-> "qdrant", degraded |-> ~healthy]
    ELSE [healthy |-> TRUE, type |-> "memory",
          degraded |-> store_type # "memory"]

\* the health records _initialize_llm_provider can build
LLMRecords ==
    {[healthy |-> h, type |-> "openai:gpt-4o-mini", degraded |-> ~h] :
        h \in BOOLEAN}
    \cup {[healthy |-> TRUE, type |-> "stub", degraded |-> d] : d \in BOOLEAN}

BuiltEngine(kind, healthy, store_type, setting) ==
    [NoEngine EXCEPT !.built = TRUE, !.setting = setting,
                     !.store_type = store_type,
                     !.vector_store = VectorStoreRecord(kind, healthy, store_type)]

\* RAGEngine() with settings.vector_store = setting: the store comes from
\* create_vector_store, which falls back to the in-process store when the
\* qdrant client library is not available
NewRAGEngine(setting, available) ==
    /\ ~engine.built
    /\ IF setting = "qdrant" /\ available
       THEN NewQdrantStoreCall
       ELSE NewInMemoryStoreCall
    /\ engine' = BuiltEngine(backend', service_healthy', setting, setting)

\* RAGEngine(vector_store=store) around a store that exists, with
\* settings.vector_store = setting
WrapRAGEngine(setting) ==
    /\ ~engine.built
    /\ backend # "none"
    /\ engine' = BuiltEngine(backend, service_healthy,
                             IF backend = "qdrant" THEN "QdrantStore"
                             ELSE "InMemoryStore", setting)
    /\ UNCHANGED <<backend, memVars, cache, now, qdrantVars, remote, last,
                   rcall, threads>>

\* get_service_status of engine e whose llm record is llm
get_service_status(e, llm) ==
    [services |-> [vector_store |-> e.vector_store, llm |-> llm],
     any_degraded |-> e.vector_store.degraded \/ llm.degraded,
     all_healthy |-> e.vector_store.healthy /\ llm.healthy]

\* stats(): the document and chunk totals
stats(e) == [total_docs |-> Cardinality(e.doc_titles),
             total_chunks |-> e.chunk_count]

\* the pairs ingest_chunks builds from the chunks
PairsOfChunks(chunks) ==
    [i \in 1..Len(chunks) |->
        Retitled(Pair(Embed(chunks[i].text), doc_hash(chunks[i].text),
                      doc_hash(chunks[i].text)),
                 chunks[i].title)]

\* a counter of ingests that counts the failed ones too
IngestsCounted(total, raised) == total + 1

\* self.metrics.total_ingests += 1, the statement after the store's upsert:
\* it is not reached when the upsert raises
IngestsAfter(total, raised) == IF raised THEN total ELSE total + 1

\* the ingest endpoint's answer to what ingest_chunks returned: the HTTP
\* status, 500 for any exception
IngestEndpointStatus(ret) == IF ret.raised THEN 500 ELSE 200

\* ingest_chunks(chunks): titles and the chunk counter are updated in the
\* loop that builds the pairs, before the store's upsert runs
IngestChunks(chunks) ==
    LET titles == engine.doc_titles \cup {chunks[i].title : i \in 1..Len(chunks)}
        counted == [engine EXCEPT !.doc_titles = titles,
                                  !.chunk_count = @ + Len(chunks)]
        batch == PairsOfChunks(chunks)
    IN  /\ engine.built
        /\ engine.chunk_count + Len(chunks) <= MaxChunkCount
        /\ engine.total_ingests < MaxIngests
        /\ MemUpsertCall(batch) \/ QUpsertCall(batch)
        /\ engine' =
             IF last'.raised
             THEN [counted EXCEPT
                     !.total_ingests = IngestsAfter(@, last'.raised),
                     !.ret = [NoReturn EXCEPT !.op = "ingest",
                                              !.raised = TRUE]]
             ELSE [counted EXCEPT
                     !.total_ingests = IngestsAfter(@, last'.raised),
                     !.ret = [NoReturn EXCEPT
                                !.op = "ingest",
                                !.new_docs = Cardinality(titles)
                                             - Cardinality(engine.doc_titles),
                                !.new_chunks = Len(batch)]]

\* a buffer without a bound
DequeAppendUnbounded(buf, x) == Append(buf, x)

\* deque(maxlen=buffer_size).append
DequeAppend(buf, x) ==
    IF Len(buf) >= buffer_size THEN Append(Tail(buf), x) ELSE Append(buf, x)

\* the latencies tried on the buffers, in milliseconds
Samples == {10, 20, 30}

\* engine.metrics.add_retrieval(ms)
AddRetrieval(ms) ==
    /\ engine.built
    /\ engine' = [engine EXCEPT !.t_retrieval = DequeAppend(@, ms)]
    /\ UNCHANGED <<backend, memVars, cache, now, qdrantVars, remote, last,
                   rcall, threads>>

\* engine.metrics.add_generation(ms)
AddGeneration(ms) ==
    /\ engine.built
    /\ engine' = [engine EXCEPT !.t_generation = DequeAppend(@, ms)]
    /\ UNCHANGED <<backend, memVars, cache, now, qdrantVars, remote, last,
                   rcall, threads>>

\* retrieve(query, k); the latency recorded is the time the search took, in
\* milliseconds
Retrieve(query, k, d) ==
    /\ engine.built
    /\ MemSearchCall(Embed(query), k, d) \/ QSearchCall(Embed(query), k, d)
    /\ engine' = [engine EXCEPT
                    !.t_retrieval = DequeAppend(@, (now' - now) * 1000),
                    !.ret = [NoReturn EXCEPT
                               !.op = "retrieve",
                               !.contexts = [j \in 1..Len(last'.res) |->
                                                last'.res[j][2]]]]

\* a counter of asks that starts again with the generation buffer
TotalAsksWrapped(total) == (total + 1) % (buffer_size + 1)

\* self.metrics.total_asks += 1
TotalAsksAfter(total) == total + 1

\* generate(query, contexts): the provider's generate returns an answer (a
\* failing remote model is answered by its fallback text), its latency ms
\* is recorded and the ask counted
Generate(ms) ==
    /\ engine.built
    /\ engine.total_asks < MaxAsks
    /\ engine' = [engine EXCEPT
                    !.t_generation = DequeAppend(@, ms),
                    !.total_asks = TotalAsksAfter(@),
                    !.ret = [NoReturn EXCEPT !.op = "generate"]]
    /\ UNCHANGED <<backend, memVars, cache, now, qdrantVars, remote, last,
                   rcall, threads>>

\* reset_metrics: self.metrics = Metrics()
ResetMetrics ==
    /\ engine.built
    /\ engine' = [engine EXCEPT
                    !.t_retrieval = <<>>, !.t_generation = <<>>,
                    !.total_asks = 0, !.total_ingests = 0,
                    !.ret = [NoReturn EXCEPT !.op = "reset"]]
    /\ UNCHANGED <<backend, memVars, cache, now, qdrantVars, remote, last,
                   rcall, threads>>

(***************************************************************************)
(* The store's calls made on the store itself.                             *)
(***************************************************************************)
NewInMemoryStore == NewInMemoryStoreCall /\ UNCHANGED engine

NewQdrantStore == NewQdrantStoreCall /\ UNCHANGED engine

MemUpsert(batch) == MemUpsertCall(batch) /\ UNCHANGED engine

MemSearch(q, k, d) == MemSearchCall(q, k, d) /\ UNCHANGED engine

QUpsert(batch) == QUpsertCall(batch) /\ UNCHANGED engine

QSearch(q, k, d) == QSearchCall(q, k, d) /\ UNCHANGED engine

(***************************************************************************)
(* retry_with_backoff on its own, on every behaviour of func.              *)
(***************************************************************************)
NoRetry == [outs |-> <<>>, max_retries |-> 0, base_delay |-> 0,
            max_delay |-> 0, run |-> [result |-> "None", calls |-> 0,
                                      sleeps |-> <<>>]]

Outcomes == {"raise", "None", "value"}

BaseDelays == {search_base_delay, upsert_base_delay, connect_base_delay}

MaxDelays == {3000, default_max_delay}

RetryCall(outs, max_retries, base_delay, max_delay) ==
    /\ rcall' = [outs |-> outs, max_retries |-> max_retries,
                 base_delay |-> base_delay, max_delay |-> max_delay,
                 run |-> retry_with_backoff(outs, max_retries, base_delay,
                                            max_delay)]
    /\ UNCHANGED <<backend, memVars, cache, now, qdrantVars, remote, last,
                   engine, threads>>

(***************************************************************************)
(* Two request threads on one InMemoryStore.  The ingest and ask handlers  *)
(* are plain functions, which the server runs on worker threads; they      *)
(* share the module's engine and take no lock.  One thread is inside       *)
(* search, the other inside upsert, and each call advances by the blocks   *)
(* of statements below; within a block no other thread runs.               *)
(***************************************************************************)
NoThreads ==
    [search |-> [pc |-> "idle", q |-> <<>>, k |-> 0, res |-> <<>>],
     upsert |-> [pc |-> "idle", batch |-> <<>>, added |-> 0]]

\* what the two-thread steps leave alone
aloneVars == <<backend, now, qdrantVars, remote, engine, rcall>>

\* search, from its entry to the cache lookup
SearchBegin(q, k) ==
    /\ backend = "memory"
    /\ threads.search.pc = "idle"
    /\ IF StoreIsEmpty(vecs)
       THEN /\ last' = [NoCall EXCEPT !.op = "search", !.q = q, !.k = k,
                                       !.t = now]
            /\ UNCHANGED <<cache, threads>>
       ELSE LET query_hash == QueryHash(q, k)
                cleaned == CleanupCache(cache, now)
                hit == /\ query_hash \in CacheKeys(cleaned)
                       /\ IsCacheValid(CacheGet(cleaned, query_hash).ts, now)
            IN  /\ cache' = cleaned
                /\ IF hit
                   THEN /\ last' = [NoCall EXCEPT
                                     !.op = "search", !.q = q, !.k = k,
                                     !.res = CacheGet(cleaned, query_hash).res,
                                     !.cached = TRUE, !.t = now]
                        /\ UNCHANGED threads
                   ELSE /\ threads' = [threads EXCEPT
                                        !.search = [pc |-> "norms", q |-> q,
                                                    k |-> k, res |-> <<>>]]
                        /\ UNCHANGED last
    /\ UNCHANGED <<memVars, aloneVars>>

\* search: the norms are recomputed if their number is not the vectors'
SearchNorms ==
    /\ threads.search.pc = "norms"
    /\ norms' = IF Len(norms) # Len(vecs) THEN PrecomputedNorms(vecs)
                ELSE norms
    /\ threads' = [threads EXCEPT !.search.pc = "sims"]
    /\ UNCHANGED <<vecs, meta, hashes, cache, last, aloneVars>>

\* (A @ qf) / (self._precomputed_norms * qnorm + 1e-9): numpy stretches an
\* array of one norm over the rows of A and raises on any other mismatch
BroadcastNorms(ns, rows) ==
    IF Len(ns) = rows THEN ns ELSE [i \in 1..rows |-> ns[1]]

Broadcasts(ns, rows) == Len(ns) = rows \/ Len(ns) = 1

\* search: the similarities over the vectors as they are now, and the top k
SearchSims ==
    /\ threads.search.pc = "sims"
    /\ IF Broadcasts(norms, Len(vecs))
       THEN LET sims == Sims(vecs, BroadcastNorms(norms, Len(vecs)),
                             threads.search.q)
            IN  /\ \E idx \in TopKIndex(sims, threads.search.k) :
                      threads' = [threads EXCEPT
                          !.search.pc = "insert",
                          !.search.res = ResultsOf(sims, meta, idx)]
                /\ UNCHANGED last
       ELSE /\ threads' = [threads EXCEPT !.search = NoThreads.search]
            /\ last' = [NoCall EXCEPT !.op = "search",
                                      !.q = threads.search.q,
                                      !.k = threads.search.k,
                                      !.raised = TRUE, !.t = now]
    /\ UNCHANGED <<memVars, cache, aloneVars>>

\* search: the result goes into the cache and is returned
SearchInsert ==
    /\ threads.search.pc = "insert"
    /\ cache' = CacheInsert(cache, QueryHash(threads.search.q,
                                            threads.search.k),
                            threads.search.res, now)
    /\ last' = [NoCall EXCEPT !.op = "search", !.q = threads.search.q,
                              !.k = threads.search.k,
                              !.res = threads.search.res,
                              !.computed = TRUE,
                              !.evicted = IF Evicts(cache) THEN 1 ELSE 0,
                              !.t = now]
    /\ threads' = [threads EXCEPT !.search = NoThreads.search]
    /\ UNCHANGED <<memVars, aloneVars>>

\* upsert: the loop over the pairs
UpsertAppend(batch) ==
    LET st == UpsertLoop([vecs |-> vecs, meta |-> meta, hashes |-> hashes,
                          added |-> 0], batch, 1)
    IN  /\ backend = "memory"
        /\ threads.upsert.pc = "idle"
        /\ Len(st.vecs) <= MaxStore
        /\ vecs' = st.vecs
        /\ meta' = st.meta
        /\ hashes' = st.hashes
        /\ IF st.added > 0
           THEN /\ threads' = [threads EXCEPT
                                !.upsert = [pc |-> "norms", batch |-> batch,
                                            added |-> st.added]]
                /\ UNCHANGED last
           ELSE /\ last' = [NoCall EXCEPT !.op = "upsert", !.batch = batch]
                /\ UNCHANGED threads
        /\ UNCHANGED <<norms, cache, aloneVars>>

\* upsert: self._update_precomputed_norms()
UpsertNorms ==
    /\ threads.upsert.pc = "norms"
    /\ norms' = PrecomputedNorms(vecs)
    /\ threads' = [threads EXCEPT !.upsert.pc = "clear"]
    /\ UNCHANGED <<vecs, meta, hashes, cache, last, aloneVars>>

\* upsert: self._query_cache.clear(), and the call returns
UpsertClear ==
    /\ threads.upsert.pc = "clear"
    /\ cache' = CacheAfterMemUpsert(cache, threads.upsert.added)
    /\ last' = [NoCall EXCEPT !.op = "upsert",
                              !.batch = threads.upsert.batch,
                              !.added = threads.upsert.added]
    /\ threads' = [threads EXCEPT !.upsert = NoThreads.upsert]
    /\ UNCHANGED <<memVars, aloneVars>>

(***************************************************************************)
(* The specifications.                                                     *)
(***************************************************************************)
Init ==
    /\ backend = "none"
    /\ vecs = <<>>
    /\ meta = <<>>
    /\ hashes = {}
    /\ norms = <<>>
    /\ cache = <<>>
    /\ now = 0
    /\ service_healthy = FALSE
    /\ client = FALSE
    /\ remote = "up"
    /\ collection = FALSE
    /\ points = <<>>
    /\ last = NoCall
    /\ engine = NoEngine
    /\ rcall = NoRetry
    /\ threads = NoThreads

\* the in-process store alone
NextMem ==
    \/ NewInMemoryStore
    \/ \E batch \in Batches : MemUpsert(batch)
    \/ \E q \in Queries, k \in 1..MaxK, d \in Elapse : MemSearch(q, k, d)
    \/ Tick

SpecMem == Init /\ [][NextMem]_vars

\* the remote store alone, its service up or down
NextQdrant ==
    \/ NewQdrantStore
    \/ \E batch \in QBatches : QUpsert(batch)
    \/ \E q \in QQueries, k \in 1..MaxK, d \in Elapse : QSearch(q, k, d)
    \/ \E s \in {"up", "down"} : RemoteChange(s)
    \/ Tick

SpecQdrant == Init /\ [][NextQdrant]_vars

\* the remote store alone, with requests that fail one by one, at one time
NextFlaky ==
    \/ NewQdrantStore
    \/ \E batch \in QBatches : QUpsert(batch)
    \/ \E q \in QQueries, k \in 1..MaxK : QSearch(q, k, 0)
    \/ \E s \in {"up", "down", "flaky"} : RemoteChange(s)

SpecFlaky == Init /\ [][NextFlaky]_vars

\* upserts into the remote store, its service up
NextIds ==
    \/ NewQdrantStore
    \/ \E batch \in IdBatches : QUpsert(batch)

SpecIds == Init /\ [][NextIds]_vars

\* either store
Next == NextMem \/ NextQdrant

Spec == Init /\ [][Next]_vars

\* the engine over either store, at one time
NextEngine ==
    \/ NewInMemoryStore
    \/ NewQdrantStore
    \/ \E setting \in {"qdrant", "memory"}, available \in BOOLEAN :
          NewRAGEngine(setting, available)
    \/ \E setting \in {"qdrant", "memory"} : WrapRAGEngine(setting)
    \/ \E chunks \in ChunkLists : IngestChunks(chunks)
    \/ \E query \in QueryTexts, k \in 1..MaxK : Retrieve(query, k, 0)
    \/ \E s \in {"up", "down"} : RemoteChange(s)

SpecEngine == Init /\ [][NextEngine]_vars

\* the latency buffers of an engine's metrics
NextMetrics ==
    \/ \E setting \in {"qdrant", "memory"}, available \in BOOLEAN :
          NewRAGEngine(setting, available)
    \/ \E ms \in Samples : AddRetrieval(ms)
    \/ \E ms \in Samples : AddGeneration(ms)

SpecMetrics == Init /\ [][NextMetrics]_vars

\* the counters of an engine's metrics, the remote service up or down
NextCounters ==
    \/ \E setting \in {"qdrant", "memory"} : NewRAGEngine(setting, TRUE)
    \/ \E chunks \in CounterChunkLists : IngestChunks(chunks)
    \/ \E query \in QueryTexts : Retrieve(query, 1, 0)
    \/ \E ms \in Samples : Generate(ms)
    \/ ResetMetrics
    \/ \E s \in {"up", "down"} : RemoteChange(s)

SpecCounters == Init /\ [][NextCounters]_vars

\* upserts into the remote store, some of them malformed
NextMalformed ==
    \/ NewQdrantStore
    \/ \E batch \in BadBatches : QUpsert(batch)
    \/ \E s \in {"up", "down"} : RemoteChange(s)

SpecMalformed == Init /\ [][NextMalformed]_vars

\* retry_with_backoff alone
NextRetry ==
    \E max_retries \in 0..MaxRetriesBound, base_delay \in BaseDelays,
       max_delay \in MaxDelays :
        \E outs \in [1..(max_retries + 1) -> Outcomes] :
            RetryCall(outs, max_retries, base_delay, max_delay)

SpecRetry == Init /\ [][NextRetry]_vars

\* the in-process store given vectors of two dimensions
NextDims ==
    \/ NewInMemoryStore
    \/ \E batch \in BadBatches : MemUpsert(batch)
    \/ \E q \in Queries, k \in 1..MaxK : MemSearch(q, k, 0)

SpecDims == Init /\ [][NextDims]_vars

\* one InMemoryStore under a searching and an upserting thread
NextConcurrent ==
    \/ NewInMemoryStore
    \/ \E q \in Queries, k \in 1..MaxK : SearchBegin(q, k)
    \/ SearchNorms
    \/ SearchSims
    \/ SearchInsert
    \/ \E batch \in Batches : UpsertAppend(batch)
    \/ UpsertNorms
    \/ UpsertClear

SpecConcurrent == Init /\ [][NextConcurrent]_vars

(***************************************************************************)
(* The steps the properties speak of.                                      *)
(***************************************************************************)
\* this step is a call of the store's search
SearchStep ==
    /\ last'.op = "search"
    /\ \/ MemSearch(last'.q, last'.k, now' - now)
       \/ QSearch(last'.q, last'.k, now' - now)

\* this step is a call of InMemoryStore.upsert
MemUpsertStep == last'.op = "upsert" /\ MemUpsert(last'.batch)

\* the similarities of the stored vectors to q, each from its vector alone
BruteForceSims(q) ==
    [i \in 1..Len(vecs) |-> Similarity(vecs[i], VecNorm(vecs[i]), q)]

\* scores fall, or stay, along a result list
NonIncreasing(r) == \A j \in 1..(Len(r) - 1) : r[j][1] >= r[j + 1][1]

\* r is a top-k of the store's contents for q: k entries in falling score
\* order, each a stored entry with its true similarity, none repeated, and
\* nothing left out that scores above the lowest one returned
IsTopK(r, q, k) ==
    LET s == BruteForceSims(q)
    IN  /\ Len(r) = k
        /\ NonIncreasing(r)
        /\ \E idx \in [1..k -> 1..Len(vecs)] :
              /\ Injective(idx)
              /\ r = ResultsOf(s, meta, idx)
              /\ \A i \in (1..Len(vecs)) \ Range(idx) : s[i] <= r[k][1]

(***************************************************************************)
(* InMemoryStore: search and upsert.                                       *)
(***************************************************************************)
\* C1: on an InMemoryStore of N >= 1 vectors, a search(query, k) with
\* 1 <= k <= N that is not served from the cache returns exactly k pairs in
\* non-increasing score order, and they are a true top-k: no entry left out
\* scores higher than the lowest one returned.
C1_TopKCorrect ==
    (/\ backend = "memory"
     /\ last.op = "search"
     /\ last.computed
     /\ 1 <= last.k
     /\ last.k <= Len(vecs))
    => IsTopK(last.res, last.q, last.k)

\* the query <<1, 0>> with k = 2 over A, C and a vector at right angles to
\* the query returns A, then C
C1_Witness ==
    /\ backend = "memory"
    /\ last.op = "search"
    /\ last.computed
    /\ last.q = <<1, 0>>
    /\ last.k = 2
    /\ Len(vecs) = 3
    /\ Len(last.res) = 2
    /\ last.res[1][2].hash = "h1"
    /\ last.res[2][2].hash = "h3"
    /\ last.res[1][1] > last.res[2][1]

\* the stored entries that carry hash h
EntriesWithHash(ms, h) == {j \in 1..Len(ms) : ms[j].hash = h}

\* C2: InMemoryStore.upsert of a pair whose non-empty hash is stored already,
\* by an earlier call or earlier in the batch, is a no-op: after the call
\* the store holds exactly one entry for each hash of the batch, and a call
\* made only of stored hashes leaves vectors, metadata, hash set, norms and
\* query cache as they were.
C2_DuplicateUpsertNoOp ==
    [][MemUpsertStep =>
         LET batch == last'.batch
             hashed == {i \in 1..Len(batch) : batch[i].m.hash # ""}
         IN  /\ \A i \in hashed :
                   Cardinality(EntriesWithHash(meta', batch[i].m.hash)) = 1
             /\ (\A i \in 1..Len(batch) :
                     i \in hashed /\ batch[i].m.hash \in hashes)
                => /\ UNCHANGED <<vecs, meta, hashes, norms, cache>>
                   /\ last'.added = 0]_vars

\* a batch of two stored pairs was upserted while the cache held an entry
C2_Witness ==
    /\ backend = "memory"
    /\ last.op = "upsert"
    /\ Len(last.batch) = 2
    /\ last.added = 0
    /\ Len(vecs) >= 2
    /\ cache # <<>>

(***************************************************************************)
(* RAGEngine.ingest_chunks.                                                *)
(***************************************************************************)
\* C3: the new-chunk count ingest_chunks reports equals the number of pairs
\* the store inserted; re-ingesting chunks whose hashes are all stored
\* reports zero new chunks.
C3_NewCountIsInserted ==
    (/\ backend = "memory"
     /\ engine.ret.op = "ingest"
     /\ ~engine.ret.raised)
    => engine.ret.new_chunks = last.added

(***************************************************************************)
(* The query cache of either store.                                        *)
(***************************************************************************)
\* this step is the second of two consecutive searches for the same query
\* vector and k, no other store call between them, less than the TTL apart
SecondSearch ==
    /\ SearchStep
    /\ last.op = "search"
    /\ last'.q = last.q
    /\ last'.k = last.k
    /\ last'.t - last.t < cache_ttl

\* C4: on either backend, two consecutive searches with the same query
\* vector and the same k, no upsert between them and less than the TTL
\* apart, return identical results, the second served from the query cache
\* without recomputation or a remote request.
C4_SecondSearchFromCache ==
    [][SecondSearch =>
         /\ last'.res = last.res
         /\ last'.cached
         /\ ~last'.computed
         /\ last'.reqs = 0]_vars

\* C4, amended: when the first of the two searches computed its result (it
\* found the store non-empty and, on the remote backend, healthy and
\* answering) the second returns the identical result from the query cache,
\* without recomputation or a remote request.
C4_SecondSearchAfterComputed ==
    [][(SecondSearch /\ last.computed) =>
         /\ last'.res = last.res
         /\ last'.cached
         /\ ~last'.computed
         /\ last'.reqs = 0]_vars

\* a non-empty result was served from a cache entry made by an earlier call
C4_Witness ==
    /\ backend = "qdrant"
    /\ last.op = "search"
    /\ last.cached
    /\ last.res # <<>>
    /\ QueryHash(last.q, last.k) \in CacheKeys(cache)
    /\ CacheGet(cache, QueryHash(last.q, last.k)).ts < last.t

\* the most recent store call was an upsert that wrote: an in-process one
\* that inserted a pair, or a remote one that returned normally
WroteLast ==
    /\ last.op = "upsert"
    /\ \/ backend = "memory" /\ last.added > 0
       \/ backend = "qdrant" /\ ~last.raised

\* C5: after an InMemoryStore.upsert that inserted at least one pair, and
\* after a QdrantStore.upsert that returned normally, the query cache is
\* empty, so that the next search is recomputed against the current data.
C5_CacheEmptyAfterWrite ==
    /\ [](WroteLast => cache = <<>>)
    /\ [][(SearchStep /\ WroteLast) => ~last'.cached]_vars

\* a remote upsert has returned normally, later than the program's start
C5_Witness ==
    /\ backend = "qdrant"
    /\ last.op = "upsert"
    /\ ~last.raised
    /\ last.added = 2
    /\ Len(points) = 2
    /\ now > 0
    /\ cache = <<>>

\* what a fresh search(q, k) over the store's contents can return
FreshResults(q, k) ==
    IF vecs = <<>> THEN {<<>>}
    ELSE LET sims == Sims(vecs, PrecomputedNorms(vecs), q)
         IN  {ResultsOf(sims, meta, idx) : idx \in TopKIndex(sims, k)}

\* C6: under sequential use of an InMemoryStore every search result, served
\* from the cache or computed, is one a fresh computation over the store's
\* current contents returns; no search returns a ranking computed before
\* the most recent inserting upsert.
C6_SearchIsFresh ==
    (backend = "memory" /\ last.op = "search")
    => last.res \in FreshResults(last.q, last.k)

\* a search was served from the cache of a store of three entries
C6_Witness ==
    /\ backend = "memory"
    /\ last.op = "search"
    /\ last.cached
    /\ Len(vecs) = 3
    /\ Len(last.res) = 2

(***************************************************************************)
(* QdrantStore.search with the remote service down.                        *)
(***************************************************************************)
\* this step is a QdrantStore.search made while the remote service is down
SearchWhileDown ==
    /\ backend = "qdrant"
    /\ remote = "down"
    /\ SearchStep

\* C7: a QdrantStore.search made while the remote service is unreachable
\* returns an empty list and does not raise, whatever the health flag and
\* the query cache.
C7_DownSearchEmpty ==
    [][SearchWhileDown => (~last'.raised /\ last'.res = <<>>)]_vars

\* C7, amended: a QdrantStore.search made while the remote service is
\* unreachable does not raise; it returns the live cache entry of its
\* (query, k) when the health flag is set and there is one, and an empty
\* list, with the flag cleared, otherwise.
C7_DownSearchEmptyOrCached ==
    [][SearchWhileDown =>
         LET key == QueryHash(last'.q, last'.k)
         IN  /\ ~last'.raised
             /\ ~last'.computed
             /\ IF /\ service_healthy
                   /\ key \in CacheKeys(cache)
                   /\ last'.t - CacheGet(cache, key).ts < cache_ttl
                THEN /\ last'.cached
                     /\ last'.res = CacheGet(cache, key).res
                     /\ last'.reqs = 0
                     /\ service_healthy'
                ELSE /\ ~last'.cached
                     /\ last'.res = <<>>
                     /\ last'.reqs > 0
                     /\ ~service_healthy']_vars

\* every attempt of a search failed against a remote that is down
C7_Witness ==
    /\ backend = "qdrant"
    /\ remote = "down"
    /\ last.op = "search"
    /\ last.reqs = search_max_retries + 1
    /\ last.res = <<>>
    /\ ~service_healthy
    /\ Len(points) > 0

(***************************************************************************)
(* RAGEngine.get_service_status.                                           *)
(***************************************************************************)
\* C8: whenever the QdrantStore of an engine has its service_healthy flag
\* cleared, at construction or by a later failed call, get_service_status
\* reports healthy = false and degraded = true for the vector store, and so
\* any_degraded = true and all_healthy = false.
C8_StatusFollowsFlag ==
    (engine.built /\ backend = "qdrant" /\ ~service_healthy)
    => \A llm \in LLMRecords :
          LET status == get_service_status(engine, llm)
          IN  /\ ~status.services.vector_store.healthy
              /\ status.services.vector_store.degraded
              /\ status.any_degraded
              /\ ~status.all_healthy

(***************************************************************************)
(* retry_with_backoff.                                                     *)
(***************************************************************************)
\* the run recorded is of an operation that failed on every attempt
AlwaysFails ==
    /\ rcall.outs # <<>>
    /\ \A a \in 1..Len(rcall.outs) : rcall.outs[a] = "raise"

\* C9: for an operation that fails on every attempt retry_with_backoff
\* calls it exactly max_retries + 1 times and returns None, not raising.
C9_ExhaustedReturnsNone ==
    AlwaysFails =>
        /\ rcall.run.calls = rcall.max_retries + 1
        /\ rcall.run.result = "None"

\* an operation failed four times under max_retries = 3
C9_Witness ==
    /\ AlwaysFails
    /\ rcall.max_retries = MaxRetriesBound
    /\ rcall.run.calls = MaxRetriesBound + 1

\* C10: for an operation that fails on every attempt retry_with_backoff
\* sleeps exactly max_retries times, never after the last attempt; the
\* sleep after failed attempt a, counted from 0, lasts
\* min(base_delay * 2^a, max_delay), so none exceeds max_delay.
C10_BackoffSleeps ==
    AlwaysFails =>
        /\ Len(rcall.run.sleeps) = rcall.max_retries
        /\ \A a \in 0..(rcall.max_retries - 1) :
              LET doubled == rcall.base_delay * Pow2(a)
                  slept == rcall.run.sleeps[a + 1]
              IN  /\ slept = IF doubled <= rcall.max_delay THEN doubled
                             ELSE rcall.max_delay
                  /\ slept <= rcall.max_delay

\* the second and third sleeps met the cap
C10_Witness ==
    /\ AlwaysFails
    /\ rcall.max_retries = 3
    /\ rcall.run.sleeps = <<2000, 3000, 3000>>

(***************************************************************************)
(* QdrantStore.upsert.                                                     *)
(***************************************************************************)
\* this step is a call of QdrantStore.upsert
QUpsertStep == last'.op = "upsert" /\ QUpsert(last'.batch)

\* every point derived from the batch is held by the remote collection pts
HoldsBatch(pts, batch) ==
    \A j \in 1..Len(batch) :
        \E i \in 1..Len(pts) :
            /\ pts[i].id = PointsOf(batch)[j].id
            /\ \E j2 \in 1..Len(batch) : pts[i] = PointsOf(batch)[j2]

\* C11: QdrantStore.upsert returns normally only if a remote upsert request
\* for the batch succeeded; when the store is unhealthy and reconnection
\* fails, or when every attempt of the retry budget fails, it raises to the
\* caller and service_healthy is false afterwards.
C11_UpsertReturnsOnlyOnSuccess ==
    [][QUpsertStep =>
         /\ ~last'.raised =>
               /\ HoldsBatch(points', last'.batch)
               /\ service_healthy'
         /\ (~service_healthy /\ ~client') => last'.raised
         /\ remote = "down" => last'.raised
         /\ last'.raised => ~service_healthy']_vars

\* an upsert on a healthy store used up its four attempts and raised, with
\* the remote holding points of earlier upserts
C11_Witness ==
    /\ backend = "qdrant"
    /\ last.op = "upsert"
    /\ last.raised
    /\ last.reqs = upsert_max_retries + 1
    /\ client
    /\ ~service_healthy
    /\ Len(points) > 0

(***************************************************************************)
(* InMemoryStore.search on an empty store, and the order of equal scores.  *)
(***************************************************************************)
\* this step is a call of InMemoryStore.search
MemSearchStep ==
    /\ last'.op = "search"
    /\ MemSearch(last'.q, last'.k, now' - now)

\* C12: search on an InMemoryStore that holds no vectors returns an empty
\* list for every k > 0 and leaves the query cache and all other state of
\* the store as it was: no cache lookup, purge or insertion takes place.
C12_EmptyStoreSearch ==
    [][(MemSearchStep /\ vecs = <<>>) =>
         /\ last'.res = <<>>
         /\ ~last'.cached
         /\ ~last'.computed
         /\ UNCHANGED <<vecs, meta, hashes, norms, cache>>]_vars

\* an empty store was searched with k = 2, later than the program's start
C12_Witness ==
    /\ backend = "memory"
    /\ last.op = "search"
    /\ last.k = 2
    /\ last.res = <<>>
    /\ vecs = <<>>
    /\ cache = <<>>
    /\ now > 0

\* position i comes before position j in the stable order of scores s:
\* the higher score first, and of equal scores the earlier inserted
StableBefore(s, i, j) == s[i] > s[j] \/ (s[i] = s[j] /\ i < j)

\* r is the top-k of the store's contents for q under the stable order
IsStableTopK(r, q, k) ==
    LET s == BruteForceSims(q)
        n == Min(k, Len(vecs))
    IN  \E idx \in [1..n -> 1..Len(vecs)] :
           /\ r = ResultsOf(s, meta, idx)
           /\ \A j \in 1..(n - 1) : StableBefore(s, idx[j], idx[j + 1])
           /\ \A i \in (1..Len(vecs)) \ Range(idx) :
                 \A j \in 1..n : StableBefore(s, idx[j], i)

\* C13: in the results of InMemoryStore.search, entries of equal score
\* appear in insertion order, and when more entries than k tie at the k-th
\* score the earliest inserted of them are the ones returned.
C13_TiesInInsertionOrder ==
    (backend = "memory" /\ last.op = "search" /\ vecs # <<>>)
    => IsStableTopK(last.res, last.q, last.k)

(***************************************************************************)
(* The two backends against each other.                                    *)
(***************************************************************************)
\* an InMemoryStore holding what the remote collection pts holds
AsInMemory(pts) ==
    [vecs   |-> [i \in 1..Len(pts) |-> pts[i].v],
     meta   |-> [i \in 1..Len(pts) |-> pts[i].m],
     hashes |-> {pts[i].m.hash : i \in 1..Len(pts)} \ {""},
     added  |-> 0]

\* the stored content as a set of (vector, metadata) pairs
ContentOfPoints(pts) == {<<pts[i].v, pts[i].m>> : i \in 1..Len(pts)}

ContentOfStore(st) == {<<st.vecs[i], st.meta[i]>> : i \in 1..Len(st.vecs)}

\* C14: an upsert changes the content of the remote backend as the same
\* upsert changes the same content of the in-process backend, so that the
\* same sequence of upserts leaves both with the same content: a pair whose
\* hash is stored is skipped, and the metadata kept for a hash is that of
\* its first upsert.
C14_BackendsAgree ==
    [][(QUpsertStep /\ ~last'.raised) =>
         LET st == UpsertLoop(AsInMemory(points), last'.batch, 1)
         IN  /\ Len(points') = Len(st.vecs)
             /\ ContentOfPoints(points') = ContentOfStore(st)]_vars

(***************************************************************************)
(* Construction.                                                           *)
(***************************************************************************)
\* this step constructs a QdrantStore, on its own or for a new RAGEngine
QdrantConstructStep ==
    /\ backend' = "qdrant"
    /\ \/ NewQdrantStore
       \/ \E setting \in {"qdrant", "memory"}, available \in BOOLEAN :
             NewRAGEngine(setting, available)

\* C15: constructing a QdrantStore while the remote service is unreachable
\* does not raise: every connection attempt of the startup budget is made,
\* the store ends with service_healthy = false, and the construction of a
\* RAGEngine completes with a vector_store record marked degraded.
C15_ConstructWhileDown ==
    [][(QdrantConstructStep /\ remote = "down") =>
         /\ ~last'.raised
         /\ last'.reqs = connect_max_retries + 1
         /\ ~client'
         /\ ~service_healthy'
         /\ engine # engine' =>
               /\ engine'.built
               /\ engine'.vector_store.type = "qdrant"
               /\ ~engine'.vector_store.healthy
               /\ engine'.vector_store.degraded
               /\ \A llm \in LLMRecords :
                     /\ get_service_status(engine', llm).any_degraded
                     /\ ~get_service_status(engine', llm).all_healthy]_vars

\* an engine was constructed over a QdrantStore that made its six
\* connection attempts in vain
C15_Witness ==
    /\ engine.built
    /\ engine.ret.op = "none"
    /\ engine.store_type = "qdrant"
    /\ backend = "qdrant"
    /\ last.op = "init"
    /\ last.reqs = connect_max_retries + 1
    /\ ~service_healthy
    /\ engine.vector_store.degraded

\* C16: the degraded flag of the vector_store record is true exactly when
\* the active backend differs from the configured one or is unhealthy; when
\* the settings select the in-process backend the record is healthy and not
\* degraded, whether the store came from the factory or was passed in.
C16_DegradedMeansFallbackOrUnhealthy ==
    (engine.built /\ engine.ret.op = "none") =>
        LET record == engine.vector_store
            unhealthy == backend = "qdrant" /\ ~service_healthy
        IN  /\ record.degraded = (backend # engine.setting \/ unhealthy)
            /\ (engine.setting = "memory" /\ backend = "memory")
               => (record.healthy /\ ~record.degraded)

(***************************************************************************)
(* The remote point ids.                                                   *)
(***************************************************************************)
PointIds(pts) == {pts[i].id : i \in 1..Len(pts)}

\* the text _perform_upsert derives the point id of metadata m from
IdSource(m) == IF m.id # "" THEN m.id ELSE m.hash

\* the remote collection pts holds a point of metadata m, and point_id is
\* not the id it is held under
HeldElsewhere(pts, m, point_id) ==
    \E i \in 1..Len(pts) : pts[i].m = m /\ pts[i].id # point_id

IngestStep ==
    /\ engine'.ret.op = "ingest"
    /\ \E chunks \in ChunkLists : IngestChunks(chunks)

\* C18: when the store's upsert fails during ingest_chunks the failure
\* reaches the caller: no success tuple is returned, the ingest endpoint
\* answers with an error, and total_ingests is not incremented.
C18_FailedIngestPropagates ==
    [][(IngestStep /\ last'.raised) =>
         /\ engine'.ret.raised
         /\ engine'.ret.new_docs = 0
         /\ engine'.ret.new_chunks = 0
         /\ IngestEndpointStatus(engine'.ret) = 500
         /\ engine'.total_ingests = engine.total_ingests]_vars

\* an ingestion failed after one that had succeeded
C18_Witness ==
    /\ engine.built
    /\ backend = "qdrant"
    /\ engine.ret.op = "ingest"
    /\ engine.ret.raised
    /\ last.raised
    /\ engine.total_ingests = 1
    /\ Len(points) > 0

\* C19: for every k >= 1 and every state of the store,
\* RAGEngine.retrieve(query, k) returns at most k contexts, the metadata of
\* the store's results in their order.
C19_RetrieveAtMostK ==
    engine.ret.op = "retrieve" =>
        /\ last.op = "search"
        /\ last.k >= 1
        /\ Len(engine.ret.contexts) <= last.k
        /\ Len(engine.ret.contexts) = Len(last.res)
        /\ \A j \in 1..Len(last.res) : engine.ret.contexts[j] = last.res[j][2]

\* one context was retrieved with k = 1 from an in-process store of three
\* entries
C19_Witness ==
    /\ engine.ret.op = "retrieve"
    /\ backend = "memory"
    /\ Len(vecs) = 3
    /\ last.k = 1
    /\ Len(engine.ret.contexts) = 1

\* buffer new is buffer old after sample ms has arrived: it ends with ms,
\* before it come the samples of old in their order, and the oldest of them
\* has gone if old was full
Arrived(old, new, ms) ==
    LET gone == Len(old) + 1 - Len(new)
    IN  /\ Len(new) = Min(Len(old) + 1, buffer_size)
        /\ new[Len(new)] = ms
        /\ \A j \in 1..(Len(new) - 1) : new[j] = old[j + gone]

\* C20: neither latency buffer ever holds more than buffer_size samples; a
\* sample added to a full buffer evicts the oldest, so a buffer holds the
\* most recent min(n, buffer_size) samples in arrival order; adding to one
\* buffer leaves the other as it was.
C20_LatencyBuffers ==
    /\ [](/\ Len(engine.t_retrieval) <= buffer_size
          /\ Len(engine.t_generation) <= buffer_size)
    /\ [][\A ms \in Samples :
            /\ AddRetrieval(ms) =>
                  /\ Arrived(engine.t_retrieval, engine'.t_retrieval, ms)
                  /\ engine'.t_generation = engine.t_generation
            /\ AddGeneration(ms) =>
                  /\ Arrived(engine.t_generation, engine'.t_generation, ms)
                  /\ engine'.t_retrieval = engine.t_retrieval]_vars

\* a third sample has pushed the first out of the retrieval buffer while
\* the generation buffer holds one
C20_Witness ==
    /\ engine.built
    /\ engine.t_retrieval = <<20, 30>>
    /\ engine.t_generation = <<10>>

(***************************************************************************)
(* RAGEngine: the counters of the metrics.                                 *)
(***************************************************************************)
\* this step is a call of ingest_chunks, retrieve or generate
CountedStep ==
    \/ \E chunks \in CounterChunkLists : IngestChunks(chunks)
    \/ \E query \in QueryTexts : Retrieve(query, 1, 0)
    \/ \E ms \in Samples : Generate(ms)

\* C21: total_asks and total_ingests never decrease across ingest_chunks,
\* retrieve and generate calls, also where a call evicts a sample from a
\* full latency buffer; reset_metrics, and no other call, sets them back to
\* zero.
C21_CountersMonotonic ==
    [][/\ CountedStep =>
             /\ engine'.total_asks >= engine.total_asks
             /\ engine'.total_ingests >= engine.total_ingests
       /\ ResetMetrics =>
             /\ engine'.total_asks = 0
             /\ engine'.total_ingests = 0
       /\ (\/ engine'.total_asks < engine.total_asks
           \/ engine'.total_ingests < engine.total_ingests) => ResetMetrics]_vars

\* three asks were counted while the generation buffer, full, holds the
\* last two latencies, after an ingest
C21_Witness ==
    /\ engine.built
    /\ engine.total_asks = 3
    /\ engine.total_ingests = 1
    /\ Len(engine.t_generation) = buffer_size
    /\ engine.ret.op = "generate"

(***************************************************************************)
(* QdrantStore.upsert of malformed input.                                  *)
(***************************************************************************)
\* C22: a remote upsert that the backend rejects because a vector is not of
\* the collection's dimension is reported to the caller as a failure after
\* a single attempt, with no retry and no backoff sleep.
C22_MalformedUpsertFailsAtOnce ==
    [][(/\ QUpsertStep
        /\ service_healthy
        /\ remote = "up"
        /\ Malformed(last'.batch)) =>
         /\ last'.raised
         /\ last'.reqs = 1
         /\ last'.sleeps = <<>>]_vars

(***************************************************************************)
(* QdrantStore: the health flag and reconnection.                          *)
(***************************************************************************)
\* this step is a call of QdrantStore.search
QSearchStep ==
    /\ last'.op = "search"
    /\ QSearch(last'.q, last'.k, now' - now)

\* C23: QdrantStore.search on an unhealthy store first runs one
\* reconnection, one run of _initialize_client; if that leaves the store
\* without a client, unhealthy still, the call returns an empty list, the
\* query cache is neither read nor changed (no expired entry is purged) and
\* no remote search request is made: the connection attempts of the one
\* reconnection are all its requests.
C23_UnhealthySearchReconnectsOnce ==
    [][(QSearchStep /\ ~service_healthy) =>
         /\ last'.reqs >= 1
         /\ ~client' =>
               /\ ~service_healthy'
               /\ ~last'.raised
               /\ last'.res = <<>>
               /\ ~last'.cached
               /\ ~last'.computed
               /\ cache' = cache
               /\ last'.reqs = connect_max_retries + 1
               /\ last'.sleeps = <<>>
         /\ client' =>
               last'.reqs <= 1 + (collection_max_retries + 1)
                               + (search_max_retries + 1)]_vars

\* a search on a store without a client made the six connection attempts of
\* one reconnection in vain and left an expired entry in the cache
C23_Witness ==
    /\ backend = "qdrant"
    /\ last.op = "search"
    /\ ~service_healthy
    /\ ~client
    /\ last.reqs = connect_max_retries + 1
    /\ last.res = <<>>
    /\ cache # <<>>
    /\ last.t - cache[1].ts >= cache_ttl

\* this step is a search or an upsert on an unhealthy QdrantStore whose
\* remote service is reachable
CallAfterRecovery ==
    /\ ~service_healthy
    /\ remote = "up"
    /\ QSearchStep \/ QUpsertStep

\* C24: when the remote service is reachable again, the next search or
\* upsert call on an unhealthy QdrantStore sets service_healthy back to
\* true and is served by the remote: the upsert is applied by the remote
\* and the search result is the remote's answer.
C24_RecoveredCallServedByRemote ==
    [][CallAfterRecovery =>
         /\ service_healthy'
         /\ ~last'.raised
         /\ last'.op = "upsert" => HoldsBatch(points', last'.batch)
         /\ last'.op = "search" =>
               /\ last'.computed
               /\ last'.res \in RemoteSearch(points', last'.q, last'.k)]_vars

\* C24, amended: when the remote service is reachable again, the next
\* search or upsert call on an unhealthy QdrantStore reconnects, sets
\* service_healthy back to true and returns normally; the upsert is applied
\* by the remote, and the search is answered by the remote unless the query
\* cache, which a failed call does not clear, holds a live entry of its
\* (query, k), which is then returned without a remote search.
C24_RecoveredCallReconnects ==
    [][CallAfterRecovery =>
         LET key == QueryHash(last'.q, last'.k)
             live == /\ key \in CacheKeys(cache)
                     /\ last'.t - CacheGet(cache, key).ts < cache_ttl
         IN  /\ service_healthy'
             /\ client'
             /\ collection'
             /\ ~last'.raised
             /\ last'.reqs >= 2
             /\ last'.op = "upsert" => HoldsBatch(points', last'.batch)
             /\ (last'.op = "search" /\ live) =>
                   /\ last'.cached
                   /\ last'.res = CacheGet(cache, key).res
                   /\ last'.sleeps = <<>>
             /\ (last'.op = "search" /\ ~live) =>
                   /\ last'.computed
                   /\ last'.res \in RemoteSearch(points', last'.q, last'.k)]_vars

\* a search reconnected (one connection request, one for the collection)
\* and was answered by the remote with a point, later than the start
C24_Witness ==
    /\ backend = "qdrant"
    /\ last.op = "search"
    /\ last.computed
    /\ last.res # <<>>
    /\ last.reqs = 3
    /\ service_healthy
    /\ now > 0

\* this step is a QdrantStore.search whose remote search failed on every
\* attempt of its budget
ExhaustedSearch ==
    /\ QSearchStep
    /\ ~last'.computed
    /\ Len(last'.sleeps) = search_max_retries

\* C25: when every remote search attempt of a QdrantStore.search call
\* fails, the call clears service_healthy, returns an empty list and adds
\* no entry to the query cache: what the cache holds afterwards it held
\* before, so the empty fallback is not served later as a cached result.
C25_FailedSearchNotCached ==
    [][ExhaustedSearch =>
         /\ ~service_healthy'
         /\ ~last'.raised
         /\ last'.res = <<>>
         /\ ~last'.cached
         /\ Range(cache') \subseteq Range(cache)
         /\ Len(cache') <= Len(cache)]_vars

\* a search used up its three attempts against a remote that holds points,
\* the cache holding the result of another search
C25_Witness ==
    /\ backend = "qdrant"
    /\ last.op = "search"
    /\ last.sleeps = <<search_base_delay, 2 * search_base_delay>>
    /\ last.res = <<>>
    /\ ~service_healthy
    /\ client
    /\ Len(points) > 0
    /\ cache # <<>>
    /\ QueryHash(last.q, last.k) \notin CacheKeys(cache)

(***************************************************************************)
(* QdrantStore._ensure_collection.                                         *)
(***************************************************************************)
\* this step runs the store's construction or one of its calls, each of
\* which can run _initialize_client and with it _ensure_collection
EnsureStep == QdrantConstructStep \/ QSearchStep \/ QUpsertStep

\* C26: _ensure_collection creates the target collection only when it is
\* absent: a collection that exists is never re-created or emptied by
\* construction or by a lazy reconnection, also when the existence check
\* itself fails transiently; the points it holds stay in it.
C26_ExistingCollectionKept ==
    [][(EnsureStep /\ collection) =>
         /\ collection'
         /\ PointIds(points) \subseteq PointIds(points')]_vars

(***************************************************************************)
(* QdrantStore: the query cache against the remote collection.             *)
(***************************************************************************)
\* this step is a call of the store in which the client changed the content
\* of the remote collection: an upsert request that was applied, or a
\* re-creation that emptied it
RemoteChanged ==
    /\ QSearchStep \/ QUpsertStep
    /\ points' # points

\* C27: under sequential use a QdrantStore serves no cached search result
\* that predates a change this client made to the remote collection: after
\* a call in which an upsert request was applied by the remote, the call
\* ended in failure or not, or in which the collection was re-created, the
\* query cache holds no entry from before the call.
C27_NoPreChangeEntries ==
    [][RemoteChanged => Range(cache') \cap Range(cache) = {}]_vars

(***************************************************************************)
(* The query cache: size, expiry, eviction.                                *)
(***************************************************************************)
\* C28: after any sequence of search and upsert calls on either backend the
\* query cache holds at most max_cache_size entries, no two of them under
\* one key.
C28_CacheBounded ==
    /\ Len(cache) <= max_cache_size
    /\ \A i, j \in 1..Len(cache) : cache[i].key = cache[j].key => i = j

\* a computed search has filled the cache up to its bound with entries of
\* two times
C28_Witness ==
    /\ backend = "memory"
    /\ last.op = "search"
    /\ last.computed
    /\ Len(cache) = max_cache_size
    /\ cache[1].ts < cache[2].ts
    /\ cache[2].key = QueryHash(last.q, last.k)

\* this step is a search for a (query, k) of which the cache holds an entry
\* whose age has reached the TTL when the search looks at it
SearchOfExpired ==
    /\ SearchStep
    /\ QueryHash(last'.q, last'.k) \in CacheKeys(cache)
    /\ last'.t - CacheGet(cache, QueryHash(last'.q, last'.k)).ts >= cache_ttl

\* C29: a cache entry whose age has reached the TTL is never returned by
\* search on either backend: the result is recomputed and the new result
\* is cached with a new creation timestamp.
C29_ExpiredRecomputed ==
    [][SearchOfExpired =>
         LET key == QueryHash(last'.q, last'.k)
         IN  /\ ~last'.cached
             /\ last'.computed
             /\ key \in CacheKeys(cache')
             /\ CacheGet(cache', key).ts = last'.t
             /\ CacheGet(cache', key).res = last'.res]_vars

\* C29, amended: a cache entry whose age has reached the TTL is never
\* returned by search on either backend.  Where the search is answered the
\* result is recomputed and cached with a new creation timestamp; a
\* QdrantStore.search that finds the service unavailable returns an empty
\* list instead, recomputes nothing and makes no new entry.
C29_ExpiredNeverServed ==
    [][/\ (SearchStep /\ last'.cached) =>
             LET key == QueryHash(last'.q, last'.k)
             IN  /\ key \in CacheKeys(cache)
                 /\ last'.t - CacheGet(cache, key).ts < cache_ttl
                 /\ last'.res = CacheGet(cache, key).res
       /\ SearchOfExpired =>
             LET key == QueryHash(last'.q, last'.k)
             IN  /\ ~last'.cached
                 /\ last'.computed =>
                       /\ key \in CacheKeys(cache')
                       /\ CacheGet(cache', key).ts = last'.t
                       /\ CacheGet(cache', key).res = last'.res
                 /\ ~last'.computed =>
                       /\ backend = "qdrant"
                       /\ ~service_healthy'
                       /\ last'.res = <<>>
                       /\ key \in CacheKeys(cache') =>
                             CacheGet(cache', key) = CacheGet(cache, key)]_vars

\* a search found an entry of its (query, k) whose age had reached the TTL
\* and did not return it
C29_Witness ==
    /\ last.op = "search"
    /\ ~last.cached
    /\ QueryHash(last.q, last.k) \in CacheKeys(cache)
    /\ CacheGet(cache, QueryHash(last.q, last.k)).res # <<>>
    /\ last.t - CacheGet(cache, QueryHash(last.q, last.k)).ts >= cache_ttl
    /\ last.res = <<>>

\* this step is a search that inserts its result into a cache which, the
\* expired entries purged, is at capacity
InsertAtCapacity ==
    /\ SearchStep
    /\ last'.computed
    /\ Len(CleanupCache(cache, now)) >= max_cache_size

NormsOf(ns, vs) ==
    /\ Len(ns) = Len(vs)
    /\ \A i \in 1..Len(vs) : ns[i] = VecNorm(vs[i])

\* C31: whenever InMemoryStore.search computes similarities the
\* precomputed-norms array has exactly one entry per stored vector, entry i
\* the norm of stored vector i; this holds after any sequence of upserts
\* and searches.
C31_NormsMatchVectors ==
    /\ [](backend = "memory" => NormsOf(norms, vecs))
    /\ [][(MemSearchStep /\ last'.computed) =>
            /\ NormsOf(norms', vecs')
            /\ last'.res \in {ResultsOf(Sims(vecs, norms', last'.q), meta, idx) :
                                 idx \in TopKIndex(Sims(vecs, norms', last'.q),
                                                   last'.k)}]_vars

\* a search computed its similarities over three vectors, the second of
\* another norm than the other two
C31_Witness ==
    /\ backend = "memory"
    /\ last.op = "search"
    /\ last.computed
    /\ Len(vecs) = 3
    /\ Len(norms) = 3
    /\ norms[1] # norms[2]
    /\ norms[2] # norms[3]

(***************************************************************************)
(* retry_with_backoff: the value returned.                                 *)
(***************************************************************************)
\* the attempts of the recorded run that did not raise
Succeeding == {a \in 1..Len(rcall.outs) : rcall.outs[a] # "raise"}

\* the first of them
FirstSuccess == CHOOSE a \in Succeeding : \A b \in Succeeding : a <= b

\* the recorded run stopped at its first succeeding attempt and returned
\* that attempt's value
StopsAtFirstSuccess ==
    Succeeding # {} =>
        /\ rcall.run.result = rcall.outs[FirstSuccess]
        /\ rcall.run.calls = FirstSuccess
        /\ Len(rcall.run.sleeps) = FirstSuccess - 1

\* C32: retry_with_backoff returns the value of the first attempt that
\* succeeds and makes no further attempt or sleep after it; it returns None
\* only when every one of the max_retries + 1 attempts failed, so that the
\* returned value tells success from failure.
C32_NoneOnlyOnExhaustion ==
    rcall.outs # <<>> =>
        /\ StopsAtFirstSuccess
        /\ rcall.run.result = "None" <=> Succeeding = {}

\* C32, amended: retry_with_backoff returns the value of the first attempt
\* that succeeds and makes no further attempt or sleep after it; it returns
\* None when every one of the max_retries + 1 attempts failed and also when
\* the succeeding attempt itself returned None, so the returned value tells
\* success from failure only for an operation that never returns None.
C32_FirstSuccessReturned ==
    rcall.outs # <<>> =>
        /\ StopsAtFirstSuccess
        /\ Succeeding = {} =>
              /\ rcall.run.result = "None"
              /\ rcall.run.calls = rcall.max_retries + 1
        /\ rcall.run.result = "None" <=>
              \/ Succeeding = {}
              \/ rcall.outs[FirstSuccess] = "None"

\* the third of four attempts returned a value after two sleeps
C32_Witness ==
    /\ rcall.max_retries = 3
    /\ rcall.outs[1] = "raise"
    /\ rcall.outs[2] = "raise"
    /\ rcall.outs[3] = "value"
    /\ rcall.run.result = "value"
    /\ rcall.run.calls = 3
    /\ Len(rcall.run.sleeps) = 2

(***************************************************************************)
(* QdrantStore: the attempts of one call.                                  *)
(***************************************************************************)
\* the attempts the call recorded made of its own request
OwnAttempts(call) == call.reqs - call.conn - call.setup

\* C33: every QdrantStore.search and upsert call ends after a bounded
\* number of remote attempts: at most 6 connection attempts and 4
\* collection-setup attempts for a reconnection, then at most 4 upsert
\* attempts or 3 search attempts with a sleep between two of them; the
\* search budget is strictly smaller than the upsert budget.
C33_CallBudgets ==
    [][(QSearchStep \/ QUpsertStep) =>
         /\ connect_max_retries + 1 = 6
         /\ collection_max_retries + 1 = 4
         /\ upsert_max_retries + 1 = 4
         /\ search_max_retries + 1 = 3
         /\ last'.conn \in 0..6
         /\ last'.setup \in 0..4
         /\ service_healthy => (last'.conn = 0 /\ last'.setup = 0)
         /\ last'.conn = 6 => (last'.setup = 0 /\ OwnAttempts(last') = 0)
         /\ last'.op = "upsert" =>
               /\ OwnAttempts(last') \in 0..4
               /\ Len(last'.sleeps) <= 3
         /\ last'.op = "search" =>
               /\ OwnAttempts(last') \in 0..3
               /\ Len(last'.sleeps) <= 2
         /\ search_max_retries < upsert_max_retries]_vars

\* an upsert reconnected at once, used up the four attempts of the
\* collection setup and then its own four
C33_Witness ==
    /\ backend = "qdrant"
    /\ last.op = "upsert"
    /\ last.conn = 1
    /\ last.setup = 4
    /\ last.reqs = 9
    /\ Len(last.sleeps) = 3
    /\ last.raised

(***************************************************************************)
(* C34: interleaved search and upsert on one InMemoryStore.                *)
(***************************************************************************)
\* the query and the k a cache key was made of
KeyQuery(key) == SubSeq(key, 1, Len(key) - 1)

KeyK(key) == key[Len(key)]

\* every cached result is one a fresh search over the contents returns
CacheIsFresh ==
    \A i \in 1..Len(cache) :
        cache[i].res \in FreshResults(KeyQuery(cache[i].key),
                                      KeyK(cache[i].key))

\* C34: when search and upsert calls on one InMemoryStore interleave with
\* no lock taken, no call raises, and once the upsert has completed the
\* query cache holds no result computed from the contents before it.
C34_InterleavingSafe ==
    backend = "memory" =>
        /\ ~last.raised
        /\ threads.upsert.pc = "idle" => CacheIsFresh

\* the part of C34 about the cache alone
C34_NoStaleEntryAfterUpsert ==
    (backend = "memory" /\ threads.upsert.pc = "idle") => CacheIsFresh

\* the part of C34 about raising alone
C34_NoCallRaises == backend = "memory" => ~last.raised

(***************************************************************************)
(* C35: InMemoryStore.upsert of a vector of another dimension.             *)
(***************************************************************************)
\* this step is an upsert into the in-process store of a batch that holds
\* a vector whose dimension is not the store's
WrongDimensionUpsert ==
    /\ \E batch \in BadBatches : MemUpsert(batch)
    /\ \E i \in 1..Len(last'.batch) : Len(last'.batch[i].v) # dim

\* C35: an upsert into the in-process store of a vector whose dimension is
\* not the store's is rejected with an error and adds no vector, metadata
\* or hash, and no search of the store raises afterwards.
C35_WrongDimensionRejected ==
    /\ []((backend = "memory" /\ last.op = "search") => ~last.raised)
    /\ [][WrongDimensionUpsert =>
             /\ last'.raised
             /\ UNCHANGED <<vecs, meta, hashes>>]_vars

\* the part of C35 about the upsert alone
C35_UpsertLeavesStore ==
    [][WrongDimensionUpsert =>
          /\ last'.raised
          /\ UNCHANGED <<vecs, meta, hashes>>]_vars

\* the part of C35 about later searches alone
C35_SearchesSucceed ==
    (backend = "memory" /\ last.op = "search") => ~last.raised

(***************************************************************************)
(* C36, C37: the engine's totals against the store.                        *)
(***************************************************************************)
\* C36: when the store's upsert fails inside ingest_chunks the engine's set
\* of document titles and its chunk count are as they were before the call,
\* so stats after the failed ingestion counts no document or chunk that was
\* not stored.
C36_FailedIngestLeavesTotals ==
    [][(IngestStep /\ last'.raised) =>
         /\ engine'.doc_titles = engine.doc_titles
         /\ engine'.chunk_count = engine.chunk_count
         /\ stats(engine') = stats(engine)]_vars

\* C37: after successful ingest_chunks calls into an in-process store,
\* stats().total_chunks is the number of entries the store holds, also
\* after content already stored has been ingested again.
C37_TotalChunksIsStoreSize ==
    (/\ engine.built
     /\ backend = "memory"
     /\ engine.ret.op \in {"none", "ingest", "retrieve"}
     /\ ~engine.ret.raised)
    => stats(engine).total_chunks = Len(vecs)

(***************************************************************************)
(* C38: the lists and the hash set of an InMemoryStore.                    *)
(***************************************************************************)
\* the positions of s that hold a pair or an entry without a hash
Hashless(ms) == {j \in 1..Len(ms) : ms[j].hash = ""}

\* C38: after any sequence of InMemoryStore.upsert calls the vector list and
\* the metadata list are of one length, no two stored entries share a
\* non-empty hash, and the seen-hash set is the set of the non-empty hashes
\* of the stored metadata; every pair without a hash is inserted.
C38_StoreListsAndHashes ==
    /\ [](backend = "memory" =>
            /\ Len(vecs) = Len(meta)
            /\ \A i, j \in 1..Len(meta) :
                  (meta[i].hash # "" /\ meta[i].hash = meta[j].hash) => i = j
            /\ hashes = {meta[i].hash : i \in 1..Len(meta)} \ {""})
    /\ [][MemUpsertStep =>
            LET hashless == {i \in 1..Len(last'.batch) :
                                last'.batch[i].m.hash = ""}
            IN  /\ Cardinality(Hashless(meta')) =
                      Cardinality(Hashless(meta)) + Cardinality(hashless)
                /\ last'.added >= Cardinality(hashless)
                /\ Len(vecs') = Len(vecs) + last'.added]_vars

\* a batch of a stored pair and a pair without a hash was upserted into a
\* store that held that hashless pair already: it is stored twice now
C38_Witness ==
    /\ backend = "memory"
    /\ last.op = "upsert"
    /\ last.batch = <<PairA, PairN>>
    /\ last.added = 1
    /\ Len(vecs) = 3
    /\ meta[1] = PairA.m
    /\ meta[2] = PairN.m
    /\ meta[3] = PairN.m
    /\ hashes = {"h1"}

(***************************************************************************)
(* C39: the health flag against the remote collection.                     *)
(***************************************************************************)
\* this step ran _initialize_client: the construction of a QdrantStore, or
\* a call of the store that reconnected
InitializeStep ==
    /\ QdrantConstructStep \/ QSearchStep \/ QUpsertStep
    /\ last'.conn > 0

\* C39: a QdrantStore that has service_healthy = true after its construction
\* or a reconnection has its target collection on the remote: a collection
\* setup that failed on every attempt does not leave the store marked
\* healthy.
C39_HealthyMeansCollection ==
    [][(InitializeStep /\ service_healthy') => collection']_vars

\* C39 as a property of every state of the store
C39_HealthyHasCollection ==
    (backend = "qdrant" /\ service_healthy) => collection

(***************************************************************************)
(* C40: point ids of pairs with distinct hashes.                           *)
(***************************************************************************)
\* this step is an upsert into the remote store, called on the store or by
\* ingest_chunks, whose request the remote applied
AppliedUpsert ==
    /\ backend = "qdrant"
    /\ last'.op = "upsert"
    /\ ~last'.raised
    /\ QUpsertCall(last'.batch)

\* C40: pairs with distinct content hashes upserted to the remote backend
\* get distinct point ids, in one batch and across batches, so that no pair
\* overwrites the point of a pair with another hash.
C40_DistinctHashesDistinctIds ==
    [][AppliedUpsert =>
         LET batch == last'.batch
             new == PointsOf(batch)
         IN  /\ \A i, j \in 1..Len(batch) :
                   batch[i].m.hash # batch[j].m.hash => new[i].id # new[j].id
             /\ \A i \in 1..Len(points), j \in 1..Len(batch) :
                   points[i].m.hash # batch[j].m.hash
                   => points[i].id # new[j].id]_vars

====
